---- MODULE Spec2Model ----
(***************************************************************************)
(* Model of the security-scan edge function                                *)
(* (src/supabase/functions/security-scan/index.ts).                        *)
(*                                                                         *)
(* One invocation of the serve handler is a single async function.  It     *)
(* suspends only at its awaits (req.json(), each adapter's fetch and the   *)
(* response.json() after it); everything between two awaits runs           *)
(* atomically on the JavaScript event loop, and while an invocation is     *)
(* suspended the runtime serves other requests.  The model has one action  *)
(* for the arrival of a request, one for the arrival of its body (which    *)
(* runs the handler to its first provider fetch, or to its response), one  *)
(* for a provider answering a pending fetch and one for the body of that   *)
(* answer arriving (the environment), one for the handler resuming after   *)
(* the await it is suspended at (which runs it to its next await, or to    *)
(* its response), and one for the invocation ending.                       *)
(***************************************************************************)
EXTENDS Integers, Sequences, FiniteSets, TLC

\* Number of detection engines in a VirusTotal report of the model.
MaxEngines == 2

(***************************************************************************)
(* Providers, in the order of the handler's adapter blocks.                *)
(***************************************************************************)
Providers == << "VIRUSTOTAL", "GOOGLE_SAFE_BROWSING", "URLSCAN", "IPINFO" >>

ProviderSet == { Providers[i] : i \in 1..Len(Providers) }

\* The apiKeys property each adapter block tests.
KeyName(p) == p \o "_API_KEY"

KeyNames == { KeyName(p) : p \in ProviderSet }

\* The name each adapter gives its check.
CheckName(p) ==
  CASE p = "VIRUSTOTAL" -> "VirusTotal Scan"
    [] p = "GOOGLE_SAFE_BROWSING" -> "Google Safe Browsing"
    [] p = "URLSCAN" -> "URLScan.io Analysis"
    [] p = "IPINFO" -> "IP Geolocation Check"

(***************************************************************************)
(* Request envelopes.                                                      *)
(***************************************************************************)
\* The url field is missing from the body (destructures to undefined).
NoUrl == "undefined"

\* A url whose JSON text carries the escape of a lone surrogate: the URL
\* parser accepts it, encodeURIComponent throws URIError on it.
LoneSurrogateUrl == "https://example.com/\\uD800"

Urls ==
  { "https://example.com", "http://example.com", "ftp://example.com",
    "not a url", LoneSurrogateUrl, NoUrl }

\* new URL(url): the parsed protocol and hostname, or a TypeError.  The
\* parser strips the spaces around its input.
NewURL(url) ==
  CASE url = "https://example.com" ->
         [ok |-> TRUE, protocol |-> "https:", hostname |-> "example.com"]
    [] url = "http://example.com" ->
         [ok |-> TRUE, protocol |-> "http:", hostname |-> "example.com"]
    [] url = "ftp://example.com" ->
         [ok |-> TRUE, protocol |-> "ftp:", hostname |-> "example.com"]
    [] url = LoneSurrogateUrl ->
         [ok |-> TRUE, protocol |-> "https:", hostname |-> "example.com"]
    [] url = " https://example.com " ->
         [ok |-> TRUE, protocol |-> "https:", hostname |-> "example.com"]
    [] OTHER -> [ok |-> FALSE]

\* encodeURIComponent(url) throws URIError on a lone surrogate.
EncodeURIComponentThrows(url) == url = LoneSurrogateUrl

SecretValues == { "", "secret" }

\* The apiKeys objects: any subset of the four properties, each an empty or
\* a non-empty string.
ApiKeyObjects == UNION { [S -> SecretValues] : S \in SUBSET KeyNames }

NoApiKeys == [kind |-> "undefined"]
NullApiKeys == [kind |-> "null"]

ApiKeysValues ==
  { NoApiKeys, NullApiKeys } \cup { [kind |-> "object", keys |-> k] : k \in ApiKeyObjects }

MalformedBody == [kind |-> "malformed"]
NullBody == [kind |-> "null"]

Bodies ==
  { MalformedBody, NullBody }
    \cup { [kind |-> "object", url |-> u, apiKeys |-> k] : u \in Urls, k \in ApiKeysValues }

Methods == { "OPTIONS", "POST" }

Requests == { [method |-> m, body |-> b] : m \in Methods, b \in Bodies }

\* Mutant of EnvelopeThrows: the url is parsed outside any try block.
EnvelopeThrowsOnBadUrl(body) ==
  \/ body.kind = "malformed"
  \/ body.kind = "null"
  \/ body.apiKeys.kind \in { "undefined", "null" }
  \/ ~NewURL(body.url).ok

\* const { url, apiKeys } = await req.json(); Object.keys(apiKeys):
\* req.json() rejects on a malformed body, destructuring null throws, and
\* Object.keys throws on undefined and on null.
EnvelopeThrows(body) ==
  \/ body.kind = "malformed"
  \/ body.kind = "null"
  \/ body.apiKeys.kind \in { "undefined", "null" }

\* Mutant of IsActive: the adapter block has lost its guard.
IsActiveUnguarded(keys, p) == TRUE

\* Mutant of IsActive: the property is tested for presence ('X' in apiKeys).
IsActiveWhenPresent(keys, p) == KeyName(p) \in DOMAIN keys

\* if (apiKeys.X_API_KEY): the property is present and not the empty string.
IsActive(keys, p) == KeyName(p) \in DOMAIN keys /\ keys[KeyName(p)] # ""

ActiveProviders(keys) == { p \in ProviderSet : IsActive(keys, p) }

(***************************************************************************)
(* Provider answers: what the awaited fetch and the awaited               *)
(* response.json() of one adapter settle to.                               *)
(***************************************************************************)
\* fetch rejects: DNS failure, connection refused, reset.
RejectedFetch == [fetch |-> "rejected"]

\* A body response.json() rejects on.
MalformedJson == [wellFormed |-> FALSE]

Json(obj) == [wellFormed |-> TRUE, json |-> obj]

\* The JSON value null, told from every object by its tag: reading a
\* property of it raises TypeError.
JsonNull == [null |-> TRUE]

EmptyObject == << >>

\* A VirusTotal url report with n detecting engines out of MaxEngines.
VtReport(n) ==
  [ response_code |-> 1,
    positives |-> n,
    total |-> MaxEngines,
    scans |-> [ e \in 1..MaxEngines |->
                  [ detected |-> e <= n,
                    result |-> IF e <= n THEN "malicious site" ELSE "clean site" ] ] ]

VtNotFound ==
  [ response_code |-> 0, verbose_msg |-> "Resource does not exist in the dataset" ]

ErrorObject == [ error |-> "Forbidden" ]

\* The 36 characters of a scan identifier.
ScanUuid ==
  << "6", "8", "e", "2", "6", "c", "5", "9", "-", "2", "e", "a", "e", "-",
     "4", "3", "7", "b", "-", "a", "a", "d", "1", "-", "6", "7", "4", "b",
     "c", "8", "8", "5", "9", "9", "b", "8" >>

\* The body a provider sends with an error status.
ErrorBody(p) ==
  IF p = "URLSCAN"
  THEN [ message |-> "DNS Error - Could not resolve domain", status |-> 400 ]
  ELSE ErrorObject

\* The values response.json() resolves to: null, or one of the objects the
\* provider sends.
JsonBodies(p) ==
  { JsonNull } \cup
  CASE p = "VIRUSTOTAL" ->
         { VtReport(n) : n \in 0..MaxEngines } \cup { VtNotFound, ErrorObject }
    [] p = "GOOGLE_SAFE_BROWSING" ->
         { EmptyObject,
           [ matches |-> << >> ],
           [ matches |-> << [ threatType |-> "MALWARE" ] >> ],
           [ matches |-> << [ threatType |-> "SOCIAL_ENGINEERING" ],
                            [ threatType |-> "MALWARE" ] >> ],
           ErrorObject }
    [] p = "URLSCAN" ->
         { [ uuid |-> ScanUuid, message |-> "Submission successful" ],
           ErrorBody(p) }
    [] p = "IPINFO" ->
         { [ city |-> "Mountain View", country |-> "US", org |-> "AS15169 Google LLC" ],
           [ city |-> "", country |-> "US" ],
           ErrorObject }

\* A resolved fetch: the HTTP status and the body of the Response.
Resolved(s, b) == [ fetch |-> "resolved", status |-> s, body |-> b ]

\* What a provider can answer: no answer at all (the fetch rejects), a 200
\* with any body, or an error status with an error body.
Answers(p) ==
  { RejectedFetch }
    \cup { Resolved(200, b) : b \in { MalformedJson } \cup { Json(o) : o \in JsonBodies(p) } }
    \cup { Resolved(s, b) : s \in { 403 }, b \in { MalformedJson, Json(ErrorBody(p)) } }

\* fetch(...) rejected, response.json() rejected, or the body parsed to
\* null and the first property read of the try body (vtData.response_code,
\* gsbData.matches, scanData.uuid, ipData.city) raised TypeError: control
\* reaches the adapter's catch block.
AnswerThrows(answer) ==
  \/ answer.fetch = "rejected"
  \/ ~answer.body.wellFormed
  \/ answer.body.json = JsonNull

(***************************************************************************)
(* JavaScript helpers.                                                     *)
(***************************************************************************)
Has(obj, f) == f \in DOMAIN obj

\* `${obj.f}` for a property holding a string, or undefined.
Interpolate(obj, f) == IF Has(obj, f) THEN obj[f] ELSE "undefined"

\* obj.f || 'Unknown' for a property holding a string.
OrUnknown(obj, f) == IF Has(obj, f) /\ obj[f] # "" THEN obj[f] ELSE "Unknown"

RECURSIVE Join(_)
Join(chars) == IF chars = << >> THEN "" ELSE Head(chars) \o Join(Tail(chars))

\* s.substring(0, n) on a string given as its characters.
Substring(chars, n) == SubSeq(chars, 1, IF Len(chars) < n THEN Len(chars) ELSE n)

(***************************************************************************)
(* The adapters' checks.                                                   *)
(***************************************************************************)
ServiceName(p) ==
  CASE p = "VIRUSTOTAL" -> "Failed to check with VirusTotal"
    [] p = "GOOGLE_SAFE_BROWSING" -> "Failed to check with Google Safe Browsing"
    [] p = "URLSCAN" -> "Failed to initiate URLScan.io analysis"
    [] p = "IPINFO" -> "Failed to get IP information"

\* Mutant of UnavailableCheck: the catch block reports the provider's
\* failure as a threat.
UnavailableCheckFailed(p) ==
  [ name |-> CheckName(p),
    status |-> "failed",
    description |-> ServiceName(p),
    details |-> "Service temporarily unavailable" ]

\* The check every adapter's catch block pushes.
UnavailableCheck(p) ==
  [ name |-> CheckName(p),
    status |-> "warning",
    description |-> ServiceName(p),
    details |-> "Service temporarily unavailable" ]

\* Mutant of VirusTotalCheck: the detection threshold is off by one.
VirusTotalCheckOffByOne(vtData) ==
  IF Has(vtData, "response_code") /\ vtData.response_code = 1
  THEN [ name |-> "VirusTotal Scan",
         status |-> IF vtData.positives > 1 THEN "failed" ELSE "passed",
         description |-> "Scanned by " \o ToString(vtData.total) \o " engines",
         details |-> IF vtData.positives > 1
                     THEN ToString(vtData.positives) \o " engines detected threats"
                     ELSE "No threats detected",
         engines |-> vtData ]
  ELSE [ name |-> "VirusTotal Scan",
         status |-> "warning",
         description |-> "URL not found in VirusTotal database",
         details |-> "This URL has not been previously scanned" ]

\* Mutant of VirusTotalCheck: a resource the provider does not know is
\* reported as clean.
VirusTotalCheckUnknownPassed(vtData) ==
  IF Has(vtData, "response_code") /\ vtData.response_code = 1
  THEN [ name |-> "VirusTotal Scan",
         status |-> IF vtData.positives > 0 THEN "failed" ELSE "passed",
         description |-> "Scanned by " \o ToString(vtData.total) \o " engines",
         details |-> IF vtData.positives > 0
                     THEN ToString(vtData.positives) \o " engines detected threats"
                     ELSE "No threats detected",
         engines |-> vtData ]
  ELSE [ name |-> "VirusTotal Scan",
         status |-> "passed",
         description |-> "URL not found in VirusTotal database",
         details |-> "No threats detected" ]

VirusTotalCheck(vtData) ==
  IF Has(vtData, "response_code") /\ vtData.response_code = 1
  THEN [ name |-> "VirusTotal Scan",
         status |-> IF vtData.positives > 0 THEN "failed" ELSE "passed",
         description |-> "Scanned by " \o ToString(vtData.total) \o " engines",
         details |-> IF vtData.positives > 0
                     THEN ToString(vtData.positives) \o " engines detected threats"
                     ELSE "No threats detected",
         engines |-> vtData ]
  ELSE [ name |-> "VirusTotal Scan",
         status |-> "warning",
         description |-> "URL not found in VirusTotal database",
         details |-> "This URL has not been previously scanned" ]

\* Mutant of SafeBrowsingStatus: a single match is not enough.
SafeBrowsingStatusOffByOne(gsbData) ==
  IF Has(gsbData, "matches") /\ Len(gsbData.matches) > 1 THEN "failed" ELSE "passed"

SafeBrowsingStatus(gsbData) ==
  IF Has(gsbData, "matches") /\ Len(gsbData.matches) > 0 THEN "failed" ELSE "passed"

SafeBrowsingCheck(gsbData) ==
  [ name |-> "Google Safe Browsing",
    status |-> SafeBrowsingStatus(gsbData),
    description |-> "Google's threat detection service",
    details |-> IF SafeBrowsingStatus(gsbData) = "failed"
                THEN "Detected: " \o Interpolate(gsbData.matches[1], "threatType")
                ELSE "No threats detected" ]

\* Mutant of UrlScanCheck: a submitted scan, whose verdict is still to come,
\* is reported as pending.
UrlScanCheckPending(scanData) ==
  [ name |-> "URLScan.io Analysis",
    status |-> "pending",
    description |-> "Deep URL and website analysis",
    details |-> "Scan initiated - UUID: "
                  \o (IF Has(scanData, "uuid")
                      THEN Join(Substring(scanData.uuid, 8))
                      ELSE "undefined")
                  \o "..." ]

UrlScanCheck(scanData) ==
  [ name |-> "URLScan.io Analysis",
    status |-> "passed",
    description |-> "Deep URL and website analysis",
    details |-> "Scan initiated - UUID: "
                  \o (IF Has(scanData, "uuid")
                      THEN Join(Substring(scanData.uuid, 8))
                      ELSE "undefined")
                  \o "..." ]

\* Mutant of IpInfoCheck: a lookup that leaves a field out is cautioned about.
IpInfoCheckUnknownWarning(ipData) ==
  [ name |-> "IP Geolocation Check",
    status |-> IF /\ OrUnknown(ipData, "city") # "Unknown"
                  /\ OrUnknown(ipData, "country") # "Unknown"
                  /\ OrUnknown(ipData, "org") # "Unknown"
               THEN "passed" ELSE "warning",
    description |-> "IP address and location analysis",
    details |-> "Location: " \o OrUnknown(ipData, "city") \o ", "
                  \o OrUnknown(ipData, "country") \o " | ISP: " \o OrUnknown(ipData, "org") ]

IpInfoCheck(ipData) ==
  [ name |-> "IP Geolocation Check",
    status |-> "passed",
    description |-> "IP address and location analysis",
    details |-> "Location: " \o OrUnknown(ipData, "city") \o ", "
                  \o OrUnknown(ipData, "country") \o " | ISP: " \o OrUnknown(ipData, "org") ]

\* The try body of adapter p once its response body has been parsed.
ParsedCheck(p, data) ==
  CASE p = "VIRUSTOTAL" -> VirusTotalCheck(data)
    [] p = "GOOGLE_SAFE_BROWSING" -> SafeBrowsingCheck(data)
    [] p = "URLSCAN" -> UrlScanCheck(data)
    [] p = "IPINFO" -> IpInfoCheck(data)

\* The check adapter p pushes for the answer of its provider: the catch
\* block's check when the fetch, the parse or the try body threw, the try
\* body's otherwise.
\* The HTTP status of the answer is never read.
AdapterCheck(p, answer) ==
  IF AnswerThrows(answer) THEN UnavailableCheck(p) ELSE ParsedCheck(p, answer.body.json)

\* What adapter p evaluates before its fetch is issued can throw into its
\* catch block: encodeURIComponent(url) for VirusTotal, new URL(url) for
\* IPInfo.
RequestThrows(p, url) ==
  CASE p = "VIRUSTOTAL" -> EncodeURIComponentThrows(url)
    [] p = "IPINFO" -> ~NewURL(url).ok
    [] OTHER -> FALSE

\* Mutant of UrlValidation: an unparsable url is only cautioned about.
UrlValidationInvalidWarning(url) ==
  IF NewURL(url).ok
  THEN [ name |-> "SSL/TLS Security",
         status |-> IF NewURL(url).protocol = "https:" THEN "passed" ELSE "warning",
         description |-> "Secure connection validation",
         details |-> IF NewURL(url).protocol = "https:"
                     THEN "Site uses HTTPS encryption"
                     ELSE "Site does not use HTTPS - data may be insecure" ]
  ELSE [ name |-> "URL Validation",
         status |-> "warning",
         description |-> "Invalid URL format",
         details |-> "The provided URL is not valid" ]

\* Mutant of UrlValidation: an insecure scheme is reported as a threat.
UrlValidationInsecureFailed(url) ==
  IF NewURL(url).ok
  THEN [ name |-> "SSL/TLS Security",
         status |-> IF NewURL(url).protocol = "https:" THEN "passed" ELSE "failed",
         description |-> "Secure connection validation",
         details |-> IF NewURL(url).protocol = "https:"
                     THEN "Site uses HTTPS encryption"
                     ELSE "Site does not use HTTPS - data may be insecure" ]
  ELSE [ name |-> "URL Validation",
         status |-> "failed",
         description |-> "Invalid URL format",
         details |-> "The provided URL is not valid" ]

\* Basic URL validation: the one check the handler always pushes last.
UrlValidation(url) ==
  IF NewURL(url).ok
  THEN [ name |-> "SSL/TLS Security",
         status |-> IF NewURL(url).protocol = "https:" THEN "passed" ELSE "warning",
         description |-> "Secure connection validation",
         details |-> IF NewURL(url).protocol = "https:"
                     THEN "Site uses HTTPS encryption"
                     ELSE "Site does not use HTTPS - data may be insecure" ]
  ELSE [ name |-> "URL Validation",
         status |-> "failed",
         description |-> "Invalid URL format",
         details |-> "The provided URL is not valid" ]

(***************************************************************************)
(* Overall risk.                                                           *)
(***************************************************************************)
CountStatus(checks, st) == Cardinality({ i \in 1..Len(checks) : checks[i].status = st })

failedChecks(checks) == CountStatus(checks, "failed")

warningChecks(checks) == CountStatus(checks, "warning")

\* Mutant of overallRisk: the failed threshold is off by one.
overallRiskFailedOffByOne(checks) ==
  IF failedChecks(checks) > 1 THEN "HIGH"
  ELSE IF warningChecks(checks) > 1 THEN "MEDIUM"
  ELSE "LOW"

\* Mutant of overallRisk: a single warning raises the risk.
overallRiskAnyWarning(checks) ==
  IF failedChecks(checks) > 0 THEN "HIGH"
  ELSE IF warningChecks(checks) > 0 THEN "MEDIUM"
  ELSE "LOW"

overallRisk(checks) ==
  IF failedChecks(checks) > 0 THEN "HIGH"
  ELSE IF warningChecks(checks) > 1 THEN "MEDIUM"
  ELSE "LOW"


(***************************************************************************)
(* The serve handler as a state machine.                                   *)
(***************************************************************************)
\* The invocations of the handler that may be in progress together.
MaxInvocations == 2

VARIABLES
  invocations   \* the invocations in progress, in order of arrival; of each:
                \*   request   the Request it was called with
                \*   pc        the await it is suspended at: "body" (req.json()),
                \*             "fetch" or "json" (of adapter cur), or "responded"
                \*   cur       index in Providers of the adapter it is suspended in, or 0
                \*   calls     per provider: its fetch not issued, pending, resolved
                \*             with the body in transit, or settled with an answer
                \*   results   its results array
                \*   response  the Response it returned, or NoResponse

serverVars == << invocations >>

(***************************************************************************)
(* The browser client's state.  The handler's actions leave it alone, and  *)
(* the client's actions (defined with the client, further down) leave the  *)
(* handler's state alone.                                                  *)
(***************************************************************************)
VARIABLES
  \* The Index page (pages/Index.tsx, and the one of unnamed/part_001).
  indexPage,        \* the version of the page that is deployed
  qrData,           \* the url shown as scanned, or Null
  scanSource,       \* where it came from, or Null
  securityChecks,   \* the check list shown
  reportReady,
  isScanning,
  user,             \* the signed-in user useAuth() gives the page, or Null
  scans,            \* the performSecurityScan calls made, each at an await or returned
  \* The scanner card (components/QRScanner.tsx).
  selectedFile,     \* the image chosen, if any
  imageScans,       \* the handleImageScan calls suspended at an await
  \* The browser and the database.
  localStorage,     \* the item 'qr-shield-api-keys'
  qr_scan_results,  \* the rows of the table
  \* The camera dialog (components/QRScanner.tsx, QRCameraScanner.tsx).
  showCamera,       \* QRScanner's state, the dialog's isOpen prop
  timer,            \* the effect's setTimeout(startCamera, 300) is pending
  hasPermission,    \* "null", "true" or "false"
  cameraStarted,
  permissionError,
  isRetrying,
  qrScanner,        \* the QrScanner kept in state, or Null
  starting,         \* the await startCamera is suspended at, or "idle"
  scannerRunning,   \* a QrScanner is started and not stopped
  camera            \* the device: "usable" or "denied"

pageVars ==
  << indexPage, qrData, scanSource, securityChecks, reportReady, isScanning, user, scans,
     selectedFile, imageScans, localStorage, qr_scan_results >>

cameraVars ==
  << showCamera, timer, hasPermission, cameraStarted, permissionError, isRetrying,
     qrScanner, starting, scannerRunning, camera >>

clientVars == << pageVars, cameraVars >>

vars == << serverVars, clientVars >>

\* JavaScript's null, for the state that holds a string or null.
Null == "null"

\* localStorage.getItem: null for a missing item, else its text.
NoItem == [present |-> FALSE]

Item(text) == [present |-> TRUE, text |-> text]

\* The repository holds two versions of the Index page whose scans differ:
\* pages/Index.tsx, and the one of unnamed/part_001 (lines 1-333), whose
\* performSecurityScan waits on three timers between its steps.  One of
\* them is deployed.
CurrentPage == "pages/Index.tsx"

TimedPage == "unnamed/part_001"

IndexPages == { CurrentPage, TimedPage }

\* The client as the page loads: the first render's useState values, no
\* stored credentials, an empty table, the dialog closed.
ClientInit ==
  /\ qrData = Null
  /\ scanSource = Null
  /\ securityChecks = << >>
  /\ reportReady = FALSE
  /\ isScanning = FALSE
  /\ user = Null
  /\ scans = << >>
  /\ selectedFile = [chosen |-> FALSE]
  /\ imageScans = << >>
  /\ localStorage = NoItem
  /\ qr_scan_results = << >>
  /\ showCamera = FALSE
  /\ timer = FALSE
  /\ hasPermission = Null
  /\ cameraStarted = FALSE
  /\ permissionError = ""
  /\ isRetrying = FALSE
  /\ qrScanner = Null
  /\ starting = "idle"
  /\ scannerRunning = FALSE
  /\ camera = "usable"

NotCalled == [state |-> "notCalled"]
Pending == [state |-> "pending"]
Fetched(s) == [state |-> "resolved", status |-> s]
Settled(answer) == [state |-> "settled", answer |-> answer]

NoResponse == [none |-> TRUE]

PreflightResponse == [status |-> 200, text |-> "ok"]

ErrorResponse == [status |-> 500, error |-> "Internal server error"]

SuccessResponse(checks) ==
  [status |-> 200, results |-> checks, overallRisk |-> overallRisk(checks)]

\* Mutant of Push: results.unshift(check).
PushFront(checks, check) == << check >> \o checks

\* results.push(check)
Push(checks, check) == Append(checks, check)

\* The fetches the handler issues when it reaches the await of adapter i.
FetchIssued(i) == { Providers[i] }

\* The handler from the top of adapter block i, with the results pushed so
\* far, up to its next await or to the end of the adapter blocks: the index
\* of the adapter it suspends in (0 when it ran to the end) and the results
\* after the pushes made on the way (the URL validation's included).
RECURSIVE RunAdapters(_, _, _, _)
RunAdapters(i, url, keys, checks) ==
  IF i > Len(Providers)
  THEN [cur |-> 0, results |-> Push(checks, UrlValidation(url))]
  ELSE IF ~IsActive(keys, Providers[i])
  THEN RunAdapters(i + 1, url, keys, checks)
  ELSE IF RequestThrows(Providers[i], url)
  THEN RunAdapters(i + 1, url, keys, Push(checks, UnavailableCheck(Providers[i])))
  ELSE [cur |-> i, results |-> checks]

\* Mutant of Continue: the url is parsed ahead of the adapters, outside any
\* inner try block, so an unparsable url reaches the outer catch.
ContinueParsingUrlFirst(inv, i, checks) ==
  IF ~NewURL(inv.request.body.url).ok
  THEN [inv EXCEPT !.pc = "responded", !.response = ErrorResponse]
  ELSE LET run == RunAdapters(i, inv.request.body.url, inv.request.body.apiKeys.keys, checks) IN
    IF run.cur = 0
    THEN [inv EXCEPT !.pc = "responded",
                     !.cur = 0,
                     !.results = run.results,
                     !.response = SuccessResponse(run.results)]
    ELSE [inv EXCEPT !.pc = "fetch",
                     !.cur = run.cur,
                     !.results = run.results,
                     !.calls = [ p \in ProviderSet |->
                                   IF p \in FetchIssued(run.cur) THEN Pending ELSE inv.calls[p] ]]

\* The invocation after the handler has run from adapter block i with the
\* given results: suspended at the fetch of the next adapter that issues
\* one, or returned with the success response.
Continue(inv, i, checks) ==
  LET run == RunAdapters(i, inv.request.body.url, inv.request.body.apiKeys.keys, checks) IN
    IF run.cur = 0
    THEN [inv EXCEPT !.pc = "responded",
                     !.cur = 0,
                     !.results = run.results,
                     !.response = SuccessResponse(run.results)]
    ELSE [inv EXCEPT !.pc = "fetch",
                     !.cur = run.cur,
                     !.results = run.results,
                     !.calls = [ p \in ProviderSet |->
                                   IF p \in FetchIssued(run.cur) THEN Pending ELSE inv.calls[p] ]]

\* The handler with no invocation in progress, beside a client that has
\* just loaded pages/Index.tsx.
Init ==
  /\ invocations = << >>
  /\ ClientInit
  /\ indexPage = CurrentPage

\* The same with either version of the Index page loaded.
PageInit ==
  /\ invocations = << >>
  /\ ClientInit
  /\ indexPage \in IndexPages

\* Mutant of AwaitedAnswer: the adapters share one response variable, which
\* keeps the answer of the first call that settled.
AwaitedAnswerShared(inv) ==
  inv.calls[Providers[CHOOSE j \in 1..Len(Providers) :
                        /\ inv.calls[Providers[j]].state = "settled"
                        /\ \A k \in 1..(j - 1) : inv.calls[Providers[k]].state # "settled"]].answer

\* What the awaits of the adapter the handler is suspended in yield: the
\* answer of that adapter's own call.
AwaitedAnswer(inv) == inv.calls[Providers[inv.cur]].answer

\* Mutant of NewResults: the results array is declared at module scope, and
\* an invocation finds in it what the invocations in progress have pushed.
NewResultsShared(running) ==
  IF running = << >> THEN << >> ELSE running[1].results

\* const results: SecurityCheck[] = []: an array of the invocation's own,
\* whatever the invocations in progress hold.
NewResults(running) == << >>

\* The handler is called with a request: a preflight is answered at once,
\* any other request suspends the handler at await req.json().
Arrived(req) ==
  [ request |-> req,
    pc |-> IF req.method = "OPTIONS" THEN "responded" ELSE "body",
    cur |-> 0,
    calls |-> [ p \in ProviderSet |-> NotCalled ],
    results |-> << >>,
    response |-> IF req.method = "OPTIONS" THEN PreflightResponse ELSE NoResponse ]

\* A request arrives, whether or not other invocations are in progress.
Request(req) ==
  /\ Len(invocations) < MaxInvocations
  /\ invocations' = Append(invocations, Arrived(req))
  /\ UNCHANGED clientVars

\* The body of the request has arrived: req.json() settles and the handler
\* runs to its first await on a provider, or to its response.
RequestBody(k) ==
  /\ invocations[k].pc = "body"
  /\ invocations' =
       [invocations EXCEPT ![k] =
          IF EnvelopeThrows(invocations[k].request.body)
          THEN [invocations[k] EXCEPT !.pc = "responded", !.response = ErrorResponse]
          ELSE Continue(invocations[k], 1, NewResults(invocations))]
  /\ UNCHANGED clientVars

\* The HTTP statuses provider p answers with.
Statuses(p) == { a.status : a \in { x \in Answers(p) : x.fetch = "resolved" } }

\* What a pending fetch settles to: a rejection, or a Response, of which
\* the status is known and the body still in transit.
FetchOutcomes(p) == { RejectedFetch } \cup { Fetched(s) : s \in Statuses(p) }

\* The bodies a Response of provider p with status s can carry.
ResponseBodies(p, s) ==
  { a.body : a \in { x \in Answers(p) : x.fetch = "resolved" /\ x.status = s } }

\* The provider of a pending fetch answers with the head of its response,
\* or the connection fails.
ProviderAnswer(k, p, outcome) ==
  /\ invocations[k].calls[p] = Pending
  /\ invocations' =
       [invocations EXCEPT ![k].calls[p] =
          IF outcome = RejectedFetch THEN Settled(RejectedFetch) ELSE outcome]
  /\ UNCHANGED clientVars

\* The body of the Response the handler is reading has arrived:
\* response.json() settles.
ResponseBody(k, p, body) ==
  /\ invocations[k].pc = "json"
  /\ Providers[invocations[k].cur] = p
  /\ invocations[k].calls[p].state = "resolved"
  /\ body \in ResponseBodies(p, invocations[k].calls[p].status)
  /\ invocations' =
       [invocations EXCEPT ![k].calls[p] = Settled(Resolved(invocations[k].calls[p].status, body))]
  /\ UNCHANGED clientVars

\* The handler resumes after the await it is suspended at has settled.
\* After the fetch: a rejection goes to the adapter's catch block, which
\* pushes its check, and the handler runs on; a Response has its json()
\* called, and the handler suspends again.  After response.json(): the
\* adapter pushes its check and the handler runs on.
Resume(k) ==
  LET inv == invocations[k]
      call == inv.calls[Providers[inv.cur]]
  IN /\ inv.pc \in { "fetch", "json" }
     /\ call.state \in (IF inv.pc = "fetch" THEN { "resolved", "settled" } ELSE { "settled" })
     /\ invocations' =
          [invocations EXCEPT ![k] =
             IF call.state = "resolved"
             THEN [inv EXCEPT !.pc = "json"]
             ELSE Continue(inv, inv.cur + 1,
                           Push(inv.results, AdapterCheck(Providers[inv.cur], AwaitedAnswer(inv))))]
     /\ UNCHANGED clientVars

\* A sequence without its element k.
Without(seq, k) == SubSeq(seq, 1, k - 1) \o SubSeq(seq, k + 1, Len(seq))

\* The invocation ends: the Response has been handed to the runtime and the
\* handler's locals are gone.
HandlerReturn(k) ==
  /\ invocations[k].pc = "responded"
  /\ invocations' = Without(invocations, k)
  /\ UNCHANGED clientVars

\* The requests that arrive while other invocations are in progress: a
\* preflight, a body that does not parse, and scans of two urls with one
\* or two active providers.
OverlapRequests ==
  { req \in Requests :
      \/ req.body = MalformedBody
      \/ /\ req.method = "POST"
         /\ req.body.kind = "object"
         /\ req.body.url \in { "https://example.com", "not a url" }
         /\ req.body.apiKeys.kind = "object"
         /\ req.body.apiKeys.keys \in
              { [ n \in { "VIRUSTOTAL_API_KEY" } |-> "secret" ],
                [ n \in { "VIRUSTOTAL_API_KEY", "IPINFO_API_KEY" } |-> "secret" ] } }

\* The requests that can arrive: any request when no invocation is in
\* progress, and a request of OverlapRequests while invocations of such
\* requests are suspended.
Arrivals ==
  IF invocations = << >> THEN Requests
  ELSE IF \A k \in DOMAIN invocations : invocations[k].request \in OverlapRequests
  THEN OverlapRequests
  ELSE {}

Next ==
  \/ \E req \in Arrivals : Request(req)
  \/ \E k \in DOMAIN invocations : RequestBody(k)
  \/ \E k \in DOMAIN invocations : \E p \in ProviderSet :
       \E outcome \in FetchOutcomes(p) : ProviderAnswer(k, p, outcome)
  \/ \E k \in DOMAIN invocations : \E p \in ProviderSet :
       \E body \in UNION { ResponseBodies(p, s) : s \in Statuses(p) } :
         ResponseBody(k, p, body)
  \/ \E k \in DOMAIN invocations : Resume(k)
  \/ \E k \in DOMAIN invocations : HandlerReturn(k)

Spec == Init /\ [][Next]_vars

\* The event loop runs every continuation that is ready and ends every
\* invocation that has responded; nothing obliges a provider to answer.
FairSpec ==
  Spec /\ WF_vars(\E k \in DOMAIN invocations : Resume(k))
       /\ WF_vars(\E k \in DOMAIN invocations : HandlerReturn(k))

(***************************************************************************)
(* Properties.                                                             *)
(***************************************************************************)
\* A property of every invocation in progress, or of one of them.
EveryInvocation(P(_)) == \A k \in DOMAIN invocations : P(invocations[k])

SomeInvocation(P(_)) == \E k \in DOMAIN invocations : P(invocations[k])

\* The handler has returned a Response for the request of the invocation.
Responded(inv) == inv.pc = "responded"

\* The Response is the success response { results, overallRisk }.
Returned(inv) == Responded(inv) /\ "results" \in DOMAIN inv.response

\* The request reached the adapter blocks: a POST whose body parsed to an
\* object holding an apiKeys object.
UsableEnvelope(inv) ==
  /\ inv.request.method = "POST"
  /\ inv.request.body.kind = "object"
  /\ inv.request.body.apiKeys.kind = "object"

\* The provider's secret in the request is a non-empty string.
HasSecret(inv, p) ==
  /\ KeyName(p) \in DOMAIN inv.request.body.apiKeys.keys
  /\ inv.request.body.apiKeys.keys[KeyName(p)] = "secret"

\* The positions of the returned checks that carry a name, or a status.
ChecksNamed(inv, n) == { i \in 1..Len(inv.response.results) : inv.response.results[i].name = n }

ChecksWithStatus(inv, st) == { i \in 1..Len(inv.response.results) : inv.response.results[i].status = st }

\* The provider's call of this scan settled with the given kind of answer.
CallRejected(inv, p) == inv.calls[p].state = "settled" /\ inv.calls[p].answer.fetch = "rejected"

CallUnparsable(inv, p) ==
  /\ inv.calls[p].state = "settled"
  /\ inv.calls[p].answer.fetch = "resolved"
  /\ ~inv.calls[p].answer.body.wellFormed

CallErrorStatus(inv, p) ==
  /\ inv.calls[p].state = "settled"
  /\ inv.calls[p].answer.fetch = "resolved"
  /\ inv.calls[p].answer.status \notin 200..299

\* C1: a returned overallRisk is HIGH if and only if at least one returned
\* check has status failed, whatever the number of warning and passed checks.
C1_HighIffSomeFailed ==
  EveryInvocation(LAMBDA inv :
      Returned(inv) => (inv.response.overallRisk = "HIGH" <=> ChecksWithStatus(inv, "failed") # {})
  )

\* A scan returned HIGH with one failed check among several warnings.
C1_Witness ==
  SomeInvocation(LAMBDA inv :
      /\ Returned(inv)
      /\ inv.response.overallRisk = "HIGH"
      /\ Cardinality(ChecksWithStatus(inv, "failed")) = 1
      /\ Cardinality(ChecksWithStatus(inv, "warning")) >= 3
  )

\* C2: with no failed check, a returned overallRisk is MEDIUM if and only if
\* at least two checks have status warning, and LOW otherwise.
C2_MediumIffTwoWarnings ==
  EveryInvocation(LAMBDA inv :
      (Returned(inv) /\ ChecksWithStatus(inv, "failed") = {}) =>
        /\ inv.response.overallRisk = "MEDIUM" <=> Cardinality(ChecksWithStatus(inv, "warning")) >= 2
        /\ inv.response.overallRisk \in { "MEDIUM", "LOW" }
  )

\* A scan returned LOW with exactly one warning and no failed check.
C2_Witness ==
  SomeInvocation(LAMBDA inv :
      /\ Returned(inv)
      /\ ChecksWithStatus(inv, "failed") = {}
      /\ Cardinality(ChecksWithStatus(inv, "warning")) = 1
      /\ inv.response.overallRisk = "LOW"
  )

\* C3: when a provider's network call fails or its response body cannot be
\* parsed, the scan still returns the success response, and its list holds
\* exactly one check of that provider, with status warning and non-empty
\* details.
C3_FailedCallBecomesWarning ==
  EveryInvocation(LAMBDA inv :
      \A p \in ProviderSet :
        (Responded(inv) /\ (CallRejected(inv, p) \/ CallUnparsable(inv, p))) =>
          /\ Returned(inv)
          /\ Cardinality(ChecksNamed(inv, CheckName(p))) = 1
          /\ \A i \in ChecksNamed(inv, CheckName(p)) :
               /\ inv.response.results[i].status = "warning"
               /\ inv.response.results[i].details # ""
  )

\* A scan returned after the calls of all four providers failed, two by a
\* rejected fetch and two by an unparsable body.
C3_Witness ==
  SomeInvocation(LAMBDA inv :
      /\ Returned(inv)
      /\ CallRejected(inv, "VIRUSTOTAL")
      /\ CallUnparsable(inv, "GOOGLE_SAFE_BROWSING")
      /\ CallRejected(inv, "URLSCAN")
      /\ CallUnparsable(inv, "IPINFO")
  )

\* C4: a response with a non-2xx status, whatever its body, yields a check
\* of status warning for its provider.
C4_ErrorStatusBecomesWarning ==
  EveryInvocation(LAMBDA inv :
      \A p \in ProviderSet :
        (Responded(inv) /\ CallErrorStatus(inv, p)) =>
          /\ Returned(inv)
          /\ \A i \in ChecksNamed(inv, CheckName(p)) : inv.response.results[i].status = "warning"
  )

\* The handler is suspended in an adapter: at its fetch or at the
\* response.json() after it.
AwaitingProvider(inv) == inv.pc \in { "fetch", "json" }

\* C5: a scan suspended on a provider eventually returns its response, even
\* if that provider never answers.
C5_ScanAlwaysResponds ==
  SomeInvocation(AwaitingProvider) ~> SomeInvocation(Responded)

\* C6: the request of every active adapter is issued without waiting for
\* another adapter's response, so that while the handler waits for a
\* response no active adapter's request is still to be issued.
C6_RequestsIssuedTogether ==
  EveryInvocation(LAMBDA inv :
      AwaitingProvider(inv) =>
        \A p \in ProviderSet :
          (HasSecret(inv, p) /\ ~RequestThrows(p, inv.request.body.url)) => inv.calls[p].state # "notCalled"
  )

\* The place of a check's name in the declaration order of the adapters.
DeclarationRank(n) ==
  CASE n = "VirusTotal Scan" -> 1
    [] n = "Google Safe Browsing" -> 2
    [] n = "URLScan.io Analysis" -> 3
    [] n = "IP Geolocation Check" -> 4
    [] n \in { "SSL/TLS Security", "URL Validation" } -> 5

\* C7: the returned checks are in declaration order: VirusTotal, Safe
\* Browsing, URLScan, IPInfo, local validation, restricted to those present.
C7_DeclarationOrder ==
  EveryInvocation(LAMBDA inv :
      Returned(inv) =>
        \A i, j \in 1..Len(inv.response.results) :
          i < j => DeclarationRank(inv.response.results[i].name)
                     < DeclarationRank(inv.response.results[j].name)
  )

\* A scan returned the checks of all four providers and the local one.
C7_Witness ==
  SomeInvocation(LAMBDA inv :
      /\ Returned(inv)
      /\ Len(inv.response.results) = 5
      /\ \A p \in ProviderSet : inv.calls[p].state = "settled"
  )

\* C8: the returned list holds one check per active provider and one for the
\* local validation, so its length is the number of active providers plus 1.
C8_OneCheckPerActiveProvider ==
  EveryInvocation(LAMBDA inv :
      Returned(inv) =>
        /\ Len(inv.response.results) = Cardinality({ p \in ProviderSet : HasSecret(inv, p) }) + 1
        /\ \A p \in ProviderSet :
             Cardinality(ChecksNamed(inv, CheckName(p))) = IF HasSecret(inv, p) THEN 1 ELSE 0
        /\ Cardinality(ChecksNamed(inv, "SSL/TLS Security") \cup ChecksNamed(inv, "URL Validation")) = 1
  )

\* A scan returned 3 checks for two active providers, one of which reported a
\* detection and one of which failed, with a third provider's secret empty.
C8_Witness ==
  SomeInvocation(LAMBDA inv :
      /\ Returned(inv)
      /\ Len(inv.response.results) = 3
      /\ HasSecret(inv, "VIRUSTOTAL")
      /\ HasSecret(inv, "IPINFO")
      /\ "URLSCAN_API_KEY" \in DOMAIN inv.request.body.apiKeys.keys
      /\ inv.response.results[1].status = "failed"
      /\ inv.response.results[2].status = "warning"
  )

\* C9: the handler answers a POST with the top-level error only when the
\* body cannot be parsed or holds no apiKeys object; with a usable envelope
\* it returns a check list, whatever the url and the providers' answers.
C9_ErrorOnlyForBadEnvelope ==
  EveryInvocation(LAMBDA inv :
      (Responded(inv) /\ inv.request.method = "POST") =>
        /\ inv.response = ErrorResponse => ~UsableEnvelope(inv)
        /\ UsableEnvelope(inv) => Returned(inv)
  )

\* The handler answered a body without apiKeys with the top-level error.
C9_Witness ==
  SomeInvocation(LAMBDA inv :
      /\ Responded(inv)
      /\ inv.response = ErrorResponse
      /\ inv.request.body.kind = "object"
      /\ inv.request.body.url = "https://example.com"
  )

\* The urls of the model that new URL rejects.
UnparsableUrls == { "not a url", NoUrl }

\* C10: for an unparsable url the scan returns the success response, its
\* list ends with the failed URL-validation check, and every active
\* provider contributes its own check.
C10_UnparsableUrlStillScans ==
  EveryInvocation(LAMBDA inv :
      (Responded(inv) /\ UsableEnvelope(inv) /\ inv.request.body.url \in UnparsableUrls) =>
        /\ Returned(inv)
        /\ inv.response.results[Len(inv.response.results)].name = "URL Validation"
        /\ inv.response.results[Len(inv.response.results)].status = "failed"
        /\ Cardinality(ChecksNamed(inv, "URL Validation")) = 1
        /\ \A p \in ProviderSet : HasSecret(inv, p) => Cardinality(ChecksNamed(inv, CheckName(p))) = 1
  )

\* A scan of an unparsable url returned with all four providers active.
C10_Witness ==
  SomeInvocation(LAMBDA inv :
      /\ Returned(inv)
      /\ inv.request.body.url = "not a url"
      /\ \A p \in ProviderSet : HasSecret(inv, p)
      /\ Len(inv.response.results) = 5
  )

\* The check adapter p owes to the url and to the answer of its own call:
\* the catch block's when building the request throws, else the one derived
\* from its own answer.
OwnCheck(inv, p) ==
  IF RequestThrows(p, inv.request.body.url)
  THEN UnavailableCheck(p)
  ELSE AdapterCheck(p, inv.calls[p].answer)

\* C11: the check of an active provider is always present and is determined
\* by the url and that provider's own answer alone, so two scans that differ
\* only in the outcome of another provider return the same check for it.
C11_CheckDependsOnOwnAnswerOnly ==
  EveryInvocation(LAMBDA inv :
      \A p \in ProviderSet :
        (Responded(inv) /\ UsableEnvelope(inv) /\ HasSecret(inv, p)) =>
          /\ Returned(inv)
          /\ Cardinality(ChecksNamed(inv, CheckName(p))) = 1
          /\ \A i \in ChecksNamed(inv, CheckName(p)) : inv.response.results[i] = OwnCheck(inv, p)
  )

\* A scan returned Safe Browsing's detection although VirusTotal's call was
\* rejected before it and IPInfo's body was unparsable after it.
C11_Witness ==
  SomeInvocation(LAMBDA inv :
      /\ Returned(inv)
      /\ CallRejected(inv, "VIRUSTOTAL")
      /\ inv.calls["GOOGLE_SAFE_BROWSING"].state = "settled"
      /\ CallUnparsable(inv, "IPINFO")
      /\ \E i \in ChecksNamed(inv, "Google Safe Browsing") :
           inv.response.results[i].details = "Detected: MALWARE"
  )

\* C12: an adapter runs, issues its call and contributes a check exactly when
\* apiKeys holds a non-empty secret for it; with an absent or empty secret it
\* contributes no check of any status.
C12_ActiveIffNonEmptySecret ==
  EveryInvocation(LAMBDA inv :
      /\ \A p \in ProviderSet : inv.calls[p].state # "notCalled" => (UsableEnvelope(inv) /\ HasSecret(inv, p))
      /\ Returned(inv) =>
           \A p \in ProviderSet : ChecksNamed(inv, CheckName(p)) # {} <=> HasSecret(inv, p)
  )

\* A scan returned with one secret absent, one empty and two non-empty.
C12_Witness ==
  SomeInvocation(LAMBDA inv :
      /\ Returned(inv)
      /\ "VIRUSTOTAL_API_KEY" \notin DOMAIN inv.request.body.apiKeys.keys
      /\ "GOOGLE_SAFE_BROWSING_API_KEY" \in DOMAIN inv.request.body.apiKeys.keys
      /\ inv.request.body.apiKeys.keys["GOOGLE_SAFE_BROWSING_API_KEY"] = ""
      /\ HasSecret(inv, "URLSCAN")
      /\ HasSecret(inv, "IPINFO")
      /\ Len(inv.response.results) = 3
  )

\* The provider's call settled with a Response.
CallReceived(inv, p) ==
  /\ inv.calls[p].state = "settled"
  /\ inv.calls[p].answer.fetch = "resolved"

\* The provider's call settled with a body that response.json() parsed to a
\* value other than null, and the parsed body.
CallParsed(inv, p) ==
  /\ CallReceived(inv, p)
  /\ inv.calls[p].answer.body.wellFormed
  /\ inv.calls[p].answer.body.json # JsonNull

ParsedBody(inv, p) == inv.calls[p].answer.body.json

\* VirusTotal answered with the given response_code.
VtAnswered(inv, code) ==
  /\ CallParsed(inv, "VIRUSTOTAL")
  /\ "response_code" \in DOMAIN ParsedBody(inv, "VIRUSTOTAL")
  /\ ParsedBody(inv, "VIRUSTOTAL").response_code = code

\* C13: when VirusTotal knows the resource, its check is failed if the
\* positives count is above 0 and passed otherwise, its details give the
\* positives count (or 'No threats detected' for 0), and it carries the
\* report with the per-engine map and the positives and total counts.
C13_VirusTotalKnownResource ==
  EveryInvocation(LAMBDA inv :
      (Returned(inv) /\ VtAnswered(inv, 1)) =>
        /\ ChecksNamed(inv, "VirusTotal Scan") # {}
        /\ \A i \in ChecksNamed(inv, "VirusTotal Scan") :
             LET check == inv.response.results[i]
                 report == ParsedBody(inv, "VIRUSTOTAL")
             IN /\ check.status = IF report.positives > 0 THEN "failed" ELSE "passed"
                /\ check.details = IF report.positives > 0
                                   THEN ToString(report.positives) \o " engines detected threats"
                                   ELSE "No threats detected"
                /\ "engines" \in DOMAIN check
                /\ check.engines.scans = report.scans
                /\ check.engines.positives = report.positives
                /\ check.engines.total = report.total
  )

\* A scan returned a failed VirusTotal check for a report with one positive.
C13_Witness ==
  SomeInvocation(LAMBDA inv :
      /\ Returned(inv)
      /\ VtAnswered(inv, 1)
      /\ ParsedBody(inv, "VIRUSTOTAL").positives = 1
      /\ inv.response.results[1].details = "1 engines detected threats"
  )

\* C14 as stated: a not-found answer yields a warning check with description
\* 'URL not found in database' and no engine payload.
C14_NotFoundAsStated ==
  EveryInvocation(LAMBDA inv :
      (Returned(inv) /\ VtAnswered(inv, 0)) =>
        \A i \in ChecksNamed(inv, "VirusTotal Scan") :
          /\ inv.response.results[i].status = "warning"
          /\ inv.response.results[i].description = "URL not found in database"
          /\ "engines" \notin DOMAIN inv.response.results[i]
  )

\* C14 as amended: a not-found answer yields a warning check with
\* description 'URL not found in VirusTotal database' and no engine payload;
\* it never yields passed or failed.
C14_NotFoundIsWarning ==
  EveryInvocation(LAMBDA inv :
      (Returned(inv) /\ VtAnswered(inv, 0)) =>
        /\ ChecksNamed(inv, "VirusTotal Scan") # {}
        /\ \A i \in ChecksNamed(inv, "VirusTotal Scan") :
             /\ inv.response.results[i].status = "warning"
             /\ inv.response.results[i].description = "URL not found in VirusTotal database"
             /\ "engines" \notin DOMAIN inv.response.results[i]
  )

\* A scan returned after VirusTotal answered that it does not know the url.
C14_Witness ==
  SomeInvocation(LAMBDA inv :
      /\ Returned(inv)
      /\ VtAnswered(inv, 0)
      /\ inv.response.results[1].name = "VirusTotal Scan"
  )

\* The Safe Browsing response holds at least one match.
GsbMatched(inv) ==
  /\ CallParsed(inv, "GOOGLE_SAFE_BROWSING")
  /\ "matches" \in DOMAIN ParsedBody(inv, "GOOGLE_SAFE_BROWSING")
  /\ Len(ParsedBody(inv, "GOOGLE_SAFE_BROWSING").matches) >= 1

\* C15 as stated: for every received response the Safe Browsing check is
\* failed if and only if the response holds at least one match, its details
\* then name the first match's threat type, and it is passed otherwise;
\* there is no third status.
C15_NoOtherOutcome ==
  EveryInvocation(LAMBDA inv :
      (Returned(inv) /\ CallReceived(inv, "GOOGLE_SAFE_BROWSING")) =>
        /\ Cardinality(ChecksNamed(inv, "Google Safe Browsing")) = 1
        /\ \A i \in ChecksNamed(inv, "Google Safe Browsing") :
             LET check == inv.response.results[i] IN
               /\ check.status \in { "failed", "passed" }
               /\ check.status = "failed" <=> GsbMatched(inv)
               /\ GsbMatched(inv) =>
                    check.details
                      = "Detected: " \o ParsedBody(inv, "GOOGLE_SAFE_BROWSING").matches[1].threatType
  )

\* C15 as amended: for a received response whose body parses to a value
\* other than null, the Safe Browsing check is failed if and only if the
\* body holds at least one match, its details then name the first match's
\* threat type, and it is passed otherwise; for a received response whose
\* body does not parse, or parses to null, it is warning.
C15_SafeBrowsingFailedIffMatch ==
  EveryInvocation(LAMBDA inv :
      (Returned(inv) /\ CallReceived(inv, "GOOGLE_SAFE_BROWSING")) =>
        /\ Cardinality(ChecksNamed(inv, "Google Safe Browsing")) = 1
        /\ \A i \in ChecksNamed(inv, "Google Safe Browsing") :
             LET check == inv.response.results[i] IN
               IF CallParsed(inv, "GOOGLE_SAFE_BROWSING")
               THEN /\ check.status \in { "failed", "passed" }
                    /\ check.status = "failed" <=> GsbMatched(inv)
                    /\ GsbMatched(inv) =>
                         check.details
                           = "Detected: "
                               \o ParsedBody(inv, "GOOGLE_SAFE_BROWSING").matches[1].threatType
                    /\ ~GsbMatched(inv) => check.details = "No threats detected"
               ELSE check.status = "warning"
  )

\* A scan returned a failed Safe Browsing check naming the first of two
\* matches.
C15_Witness ==
  SomeInvocation(LAMBDA inv :
      /\ Returned(inv)
      /\ CallParsed(inv, "GOOGLE_SAFE_BROWSING")
      /\ GsbMatched(inv)
      /\ Len(ParsedBody(inv, "GOOGLE_SAFE_BROWSING").matches) = 2
      /\ \E i \in ChecksNamed(inv, "Google Safe Browsing") :
           inv.response.results[i].details = "Detected: SOCIAL_ENGINEERING"
  )

\* The URLScan submission succeeded: a 2xx answer whose parsed body holds the
\* scan identifier.  It failed: no answer, an unparsable body, or an error
\* status.
SubmissionSucceeded(inv) ==
  /\ CallParsed(inv, "URLSCAN")
  /\ inv.calls["URLSCAN"].answer.status \in 200..299
  /\ "uuid" \in DOMAIN ParsedBody(inv, "URLSCAN")

SubmissionFailed(inv) ==
  CallRejected(inv, "URLSCAN") \/ CallUnparsable(inv, "URLSCAN") \/ CallErrorStatus(inv, "URLSCAN")

\* C16: the URLScan check is passed when the submission succeeded, with
\* details holding the first 8 characters of the scan identifier, and
\* warning for every submission that failed.
C16_UrlScanPassedIffSubmitted ==
  EveryInvocation(LAMBDA inv :
      (Returned(inv) /\ inv.calls["URLSCAN"].state = "settled") =>
        \A i \in ChecksNamed(inv, "URLScan.io Analysis") :
          /\ SubmissionSucceeded(inv) =>
               /\ inv.response.results[i].status = "passed"
               /\ inv.response.results[i].details
                    = "Scan initiated - UUID: "
                        \o Join(SubSeq(ParsedBody(inv, "URLSCAN").uuid, 1, 8)) \o "..."
          /\ SubmissionFailed(inv) => inv.response.results[i].status = "warning"
  )

\* The geolocation lookup succeeded: a 2xx answer with a parsed body.  It
\* failed: the hostname could not be extracted, no answer, an unparsable
\* body, or an error status.
LookupSucceeded(inv) ==
  /\ CallParsed(inv, "IPINFO")
  /\ inv.calls["IPINFO"].answer.status \in 200..299

LookupFailed(inv) ==
  \/ inv.calls["IPINFO"].state = "notCalled"
  \/ CallRejected(inv, "IPINFO")
  \/ CallUnparsable(inv, "IPINFO")
  \/ CallErrorStatus(inv, "IPINFO")

\* A field of the parsed geolocation body, or 'Unknown' when it is missing
\* or empty.
GeoField(inv, f) ==
  IF f \in DOMAIN ParsedBody(inv, "IPINFO") /\ ParsedBody(inv, "IPINFO")[f] # ""
  THEN ParsedBody(inv, "IPINFO")[f]
  ELSE "Unknown"

\* C17: the geolocation check is passed whenever the lookup succeeds, with
\* city, country and organization in details ('Unknown' for a missing one),
\* warning whenever the lookup fails, and never failed.
C17_GeolocationPassedOrWarning ==
  EveryInvocation(LAMBDA inv :
      (Returned(inv) /\ HasSecret(inv, "IPINFO")) =>
        \A i \in ChecksNamed(inv, "IP Geolocation Check") :
          /\ inv.response.results[i].status # "failed"
          /\ LookupSucceeded(inv) =>
               /\ inv.response.results[i].status = "passed"
               /\ inv.response.results[i].details
                    = "Location: " \o GeoField(inv, "city") \o ", " \o GeoField(inv, "country")
                        \o " | ISP: " \o GeoField(inv, "org")
          /\ LookupFailed(inv) => inv.response.results[i].status = "warning"
  )

\* The local validation's checks among the returned ones.
LocalChecks(inv) == ChecksNamed(inv, "URL Validation") \cup ChecksNamed(inv, "SSL/TLS Security")

\* C18 as stated: for an unparsable url the local validation emits exactly
\* one check, failed, named 'URL Validation', with details 'invalid URL
\* format', and no HTTPS check.
C18_InvalidUrlAsStated ==
  EveryInvocation(LAMBDA inv :
      (Returned(inv) /\ inv.request.body.url \in UnparsableUrls) =>
        /\ Cardinality(LocalChecks(inv)) = 1
        /\ ChecksNamed(inv, "SSL/TLS Security") = {}
        /\ \A i \in LocalChecks(inv) :
             /\ inv.response.results[i].name = "URL Validation"
             /\ inv.response.results[i].status = "failed"
             /\ inv.response.results[i].details = "invalid URL format"
  )

\* C18 as amended: for an unparsable url the local validation emits exactly
\* one check, failed, named 'URL Validation', with description 'Invalid URL
\* format' and details 'The provided URL is not valid', and no HTTPS check.
C18_InvalidUrlOneFailedCheck ==
  EveryInvocation(LAMBDA inv :
      (Returned(inv) /\ inv.request.body.url \in UnparsableUrls) =>
        /\ Cardinality(LocalChecks(inv)) = 1
        /\ ChecksNamed(inv, "SSL/TLS Security") = {}
        /\ \A i \in LocalChecks(inv) :
             /\ inv.response.results[i].name = "URL Validation"
             /\ inv.response.results[i].status = "failed"
             /\ inv.response.results[i].description = "Invalid URL format"
             /\ inv.response.results[i].details = "The provided URL is not valid"
  )

\* A scan of 'not a url' returned with two active providers.
C18_Witness ==
  SomeInvocation(LAMBDA inv :
      /\ Returned(inv)
      /\ inv.request.body.url = "not a url"
      /\ Len(inv.response.results) = 3
      /\ inv.response.results[3].name = "URL Validation"
  )

\* The urls of the model whose scheme is https.
HttpsUrls == { "https://example.com", LoneSurrogateUrl }

\* C19: for a parsable url the local validation emits one HTTPS check,
\* passed for the https scheme and warning for any other, never failed.
C19_HttpsCheckPassedOrWarning ==
  EveryInvocation(LAMBDA inv :
      (Returned(inv) /\ inv.request.body.url \notin UnparsableUrls) =>
        /\ Cardinality(LocalChecks(inv)) = 1
        /\ \A i \in LocalChecks(inv) :
             /\ inv.response.results[i].name = "SSL/TLS Security"
             /\ inv.response.results[i].status
                  = IF inv.request.body.url \in HttpsUrls THEN "passed" ELSE "warning"
  )

\* A scan of an ftp url returned a warning HTTPS check.
C19_Witness ==
  SomeInvocation(LAMBDA inv :
      /\ Returned(inv)
      /\ inv.request.body.url = "ftp://example.com"
      /\ \E i \in ChecksNamed(inv, "SSL/TLS Security") : inv.response.results[i].status = "warning"
  )

\* The request holds an apiKeys object without any property.
EmptyCredentials(inv) == UsableEnvelope(inv) /\ DOMAIN inv.request.body.apiKeys.keys = {}

\* C20: with an empty credential set no provider call is made, the scan
\* returns the local validation's check alone, and overallRisk is HIGH for
\* an unparsable url and LOW for a parsable one, https or not.
C20_EmptyCredentials ==
  EveryInvocation(LAMBDA inv :
      (inv.pc # "body" /\ EmptyCredentials(inv)) =>
        /\ \A p \in ProviderSet : inv.calls[p].state = "notCalled"
        /\ Returned(inv)
        /\ Len(inv.response.results) = 1
        /\ LocalChecks(inv) = { 1 }
        /\ inv.response.overallRisk
             = IF inv.request.body.url \in UnparsableUrls THEN "HIGH" ELSE "LOW"
  )

\* A scan of an http url with an empty credential set returned LOW.
C20_Witness ==
  SomeInvocation(LAMBDA inv :
      /\ Returned(inv)
      /\ EmptyCredentials(inv)
      /\ inv.request.body.url = "http://example.com"
      /\ inv.response.overallRisk = "LOW"
  )


\* C21: with all four providers configured, VirusTotal reporting 0
\* positives, Safe Browsing reporting no match, the URLScan submission and
\* the geolocation lookup succeeding, and an https url, the scan returns
\* exactly 5 checks, all passed, and overallRisk LOW.
C21_AllClearScan ==
  EveryInvocation(LAMBDA inv :
      ( /\ Returned(inv)
        /\ \A p \in ProviderSet : HasSecret(inv, p)
        /\ inv.request.body.url \in HttpsUrls
        /\ VtAnswered(inv, 1)
        /\ ParsedBody(inv, "VIRUSTOTAL").positives = 0
        /\ CallParsed(inv, "GOOGLE_SAFE_BROWSING")
        /\ ~GsbMatched(inv)
        /\ SubmissionSucceeded(inv)
        /\ LookupSucceeded(inv) )
      => /\ Len(inv.response.results) = 5
         /\ \A i \in 1..Len(inv.response.results) : inv.response.results[i].status = "passed"
         /\ inv.response.overallRisk = "LOW"
  )

\* A scan of an https url returned after all four providers gave the all
\* clear, the geolocation answer leaving the organization out.
C21_Witness ==
  SomeInvocation(LAMBDA inv :
      /\ Returned(inv)
      /\ \A p \in ProviderSet : HasSecret(inv, p)
      /\ inv.request.body.url = "https://example.com"
      /\ VtAnswered(inv, 1)
      /\ ParsedBody(inv, "VIRUSTOTAL").positives = 0
      /\ CallParsed(inv, "GOOGLE_SAFE_BROWSING")
      /\ ~GsbMatched(inv)
      /\ SubmissionSucceeded(inv)
      /\ LookupSucceeded(inv)
      /\ "org" \notin DOMAIN ParsedBody(inv, "IPINFO")
      /\ ChecksWithStatus(inv, "passed") = 1..5
  )


\* The handler as a function of one invocation's inputs: the checks it
\* returns for a url, an apiKeys object and the answer each provider gives,
\* and the Response it returns for a request.
ScanResults(url, keys, answer) ==
  LET active == SelectSeq(Providers, LAMBDA p : IsActive(keys, p))
  IN  [ i \in 1..Len(active) |->
          IF RequestThrows(active[i], url)
          THEN UnavailableCheck(active[i])
          ELSE AdapterCheck(active[i], answer[active[i]]) ]
        \o << UrlValidation(url) >>

HandlerResponse(req, answer) ==
  IF req.method = "OPTIONS" THEN PreflightResponse
  ELSE IF EnvelopeThrows(req.body) THEN ErrorResponse
  ELSE SuccessResponse(ScanResults(req.body.url, req.body.apiKeys.keys, answer))

\* The answers the providers gave to this invocation's calls.
AnswersGiven(inv) ==
  [ p \in ProviderSet |->
      IF inv.calls[p].state = "settled" THEN inv.calls[p].answer ELSE RejectedFetch ]

\* A step of the handler: a request arrives and its invocation starts from
\* the request alone, an invocation ends and leaves nothing, or one
\* invocation takes a step and the others stay as they are.
OneInvocationSteps ==
  \/ /\ DOMAIN invocations' = DOMAIN invocations
     /\ \E k \in DOMAIN invocations :
          \A j \in DOMAIN invocations \ { k } : invocations'[j] = invocations[j]
  \/ \E k \in DOMAIN invocations : invocations' = Without(invocations, k)
  \/ /\ Len(invocations') = Len(invocations) + 1
     /\ invocations'[Len(invocations')].request \in Requests
     /\ invocations' = Append(invocations, Arrived(invocations'[Len(invocations')].request))

\* C22: the scan is deterministic and keeps no state between invocations:
\* the Response is a function of the request and of the answers the
\* providers gave to this invocation alone, whatever other invocations ran
\* before it or run beside it, and no step of an invocation changes
\* another.
C22_DeterministicAndStateless ==
  /\ [](\A k \in DOMAIN invocations :
          Responded(invocations[k]) =>
            invocations[k].response
              = HandlerResponse(invocations[k].request, AnswersGiven(invocations[k])))
  /\ [][OneInvocationSteps]_vars

\* A scan that arrived second returned its failed VirusTotal check while
\* the scan that arrived first, and has pushed a check, is suspended in its
\* IPInfo adapter.
C22_Witness ==
  /\ Len(invocations) = 2
  /\ invocations[1].pc = "json"
  /\ invocations[1].cur = 4
  /\ Len(invocations[1].results) = 1
  /\ Returned(invocations[2])
  /\ invocations[2].request.body.url = "not a url"
  /\ VtAnswered(invocations[2], 1)
  /\ ParsedBody(invocations[2], "VIRUSTOTAL").positives = 1
  /\ invocations[2].response.overallRisk = "HIGH"
  /\ Len(invocations[2].response.results) = 2


(***************************************************************************)
(* The risk the client derives from a check list.                          *)
(***************************************************************************)
\* SecurityAnalyzer.getOverallRisk, and the risk badge of the Index page.
getOverallRisk(checks) ==
  IF \E i \in 1..Len(checks) : checks[i].status = "failed" THEN "HIGH"
  ELSE IF \E i \in 1..Len(checks) : checks[i].status = "warning"
  THEN "MEDIUM"
  ELSE "LOW"

\* downloadReport: the reportData object written into the downloaded file
\* (its timestamp left out).
downloadReport(qrCodeUrl, source, checks) ==
  [ qrCodeUrl |-> qrCodeUrl,
    scanSource |-> source,
    securityChecks |-> checks,
    overallRisk |->
      IF \E i \in 1..Len(checks) : checks[i].status = "failed"
      THEN "HIGH"
      ELSE IF \E i \in 1..Len(checks) : checks[i].status = "warning"
      THEN "MEDIUM"
      ELSE "LOW" ]

\* C23: for every check list the handler returns, the risk the client shows
\* for it and the risk the client writes into the downloaded report equal
\* the overallRisk the handler computed, MEDIUM taking at least two
\* warnings.
C23_ClientRiskIsHandlerRisk ==
  EveryInvocation(LAMBDA inv :
      Returned(inv) =>
        /\ getOverallRisk(inv.response.results) = inv.response.overallRisk
        /\ downloadReport(inv.request.body.url, "manual", inv.response.results).overallRisk
             = inv.response.overallRisk
  )


\* The statuses of a finished check.
FinalStatuses == { "passed", "failed", "warning" }

\* C24: no check the handler emits has status pending: every check pushed
\* to the results array and every check of a returned list, on every path,
\* has status passed, failed or warning.
C24_NoPendingCheck ==
  EveryInvocation(LAMBDA inv :
      /\ \A i \in 1..Len(inv.results) : inv.results[i].status \in FinalStatuses
      /\ Returned(inv) =>
           \A i \in 1..Len(inv.response.results) : inv.response.results[i].status \in FinalStatuses
  )

\* A scan of an unparsable url returned five checks: VirusTotal's call was
\* rejected, the URLScan submission succeeded, the hostname could not be
\* extracted for IPInfo and the url validation failed.
C24_Witness ==
  SomeInvocation(LAMBDA inv :
      /\ Returned(inv)
      /\ inv.request.body.url = "not a url"
      /\ CallRejected(inv, "VIRUSTOTAL")
      /\ CallParsed(inv, "GOOGLE_SAFE_BROWSING")
      /\ SubmissionSucceeded(inv)
      /\ inv.calls["IPINFO"].state = "notCalled"
      /\ Len(inv.response.results) = 5
      /\ ChecksWithStatus(inv, "warning") = { 1, 4 }
      /\ 5 \in ChecksWithStatus(inv, "failed")
  )

(***************************************************************************)
(* The browser client.                                                     *)
(*                                                                         *)
(* Every handler runs atomically up to its next await.  The setState calls *)
(* of one such run are batched, so a run is one step to the values they    *)
(* leave.  A pending await settles in a later step (AwaitSettles), which   *)
(* also runs the code that follows it.  An async function reads the        *)
(* variables of the render that called it: performSecurityScan keeps the   *)
(* url and the user of its call.                                           *)
(***************************************************************************)
\* The performSecurityScan calls of one behaviour of the model.
MaxScans == 2

\* What the user types into the url field.
ManualTexts == { " ", " https://example.com ", "http://example.com" }

\* What the Settings form holds when it is saved: nothing, or a VirusTotal
\* secret typed with blanks around it and blanks in the other fields.
SettingsForms ==
  { [ k \in KeyNames |-> "" ],
    [ k \in KeyNames |-> IF k = "VIRUSTOTAL_API_KEY" THEN " secret " ELSE " " ] }

\* The fields of the Settings form in the order the page declares them.  The
\* second Settings page of unnamed/part_002 has all five, the first one the
\* four the scan handler reads.
SettingsFields ==
  [ i \in 1..Len(Providers) |-> KeyName(Providers[i]) ] \o << "BROWSERLESS_API_KEY" >>

FieldNames == { SettingsFields[i] : i \in 1..Len(SettingsFields) }

\* What the form of the second Settings page holds when it is saved: the
\* same, with its Browserless field empty, blank or filled.
BrowserlessForms ==
  { [ k \in FieldNames |-> "" ],
    [ k \in FieldNames |-> IF k = "VIRUSTOTAL_API_KEY" THEN " secret " ELSE " " ],
    [ k \in FieldNames |-> IF k = "VIRUSTOTAL_API_KEY" THEN " secret "
                           ELSE IF k = "BROWSERLESS_API_KEY" THEN "secret"
                           ELSE " " ] }

\* String.prototype.trim: the text without the spaces at its ends.
RECURSIVE Trim(_)
Trim(text) ==
  IF text = "" THEN ""
  ELSE IF SubSeq(text, 1, 1) = " " THEN Trim(SubSeq(text, 2, Len(text)))
  ELSE IF SubSeq(text, Len(text), Len(text)) = " " THEN Trim(SubSeq(text, 1, Len(text) - 1))
  ELSE text

RECURSIVE JoinWith(_, _)
JoinWith(texts, sep) ==
  IF texts = << >> THEN ""
  ELSE IF Len(texts) = 1 THEN texts[1]
  ELSE texts[1] \o sep \o JoinWith(Tail(texts), sep)

\* The "name":"value" members of a credential object, in the order the
\* Settings form lists the keys.
RECURSIVE JsonMembers(_, _)
JsonMembers(obj, i) ==
  IF i > Len(SettingsFields) THEN << >>
  ELSE (IF SettingsFields[i] \in DOMAIN obj
        THEN << "\"" \o SettingsFields[i] \o "\":\"" \o obj[SettingsFields[i]] \o "\"" >>
        ELSE << >>)
         \o JsonMembers(obj, i + 1)

\* JSON.stringify of a credential object.
JsonStringify(obj) == "{" \o JoinWith(JsonMembers(obj, 1), ",") \o "}"

\* Settings.handleSaveApiKeys: the fields whose trimmed text is not empty,
\* trimmed, written to localStorage as JSON.
keysObject(apiKeys) ==
  [ k \in { n \in KeyNames : Trim(apiKeys[n]) # "" } |-> Trim(apiKeys[k]) ]

handleSaveApiKeys(apiKeys) ==
  /\ localStorage' = Item(JsonStringify(keysObject(apiKeys)))
  /\ UNCHANGED << qrData, scanSource, securityChecks, reportReady, isScanning, user,
                  scans, selectedFile, imageScans, qr_scan_results >>
  /\ UNCHANGED << cameraVars, serverVars, indexPage >>

\* Settings.handleSaveApiKeys of the second Settings page: the fields whose
\* trimmed text is not empty, as they were typed, written to the same item.
filteredKeys(apiKeys) ==
  [ k \in { n \in DOMAIN apiKeys : Trim(apiKeys[n]) # "" } |-> apiKeys[k] ]

handleSaveApiKeysFiltered(apiKeys) ==
  /\ localStorage' = Item(JsonStringify(filteredKeys(apiKeys)))
  /\ UNCHANGED << qrData, scanSource, securityChecks, reportReady, isScanning, user,
                  scans, selectedFile, imageScans, qr_scan_results >>
  /\ UNCHANGED << cameraVars, serverVars, indexPage >>

\* text.slice(a - 1, b): the characters a..b of the text, those that exist.
Slice(text, a, b) ==
  IF a < 1 \/ b > Len(text) \/ a > b THEN "" ELSE SubSeq(text, a, b)

\* text.indexOf('"', i - 1) + 1: the position of the first double quote of
\* text from position i on, or 0.
QuoteFrom(text, i) ==
  LET quotes == { j \in i..Len(text) : SubSeq(text, j, j) = "\"" }
  IN  IF quotes = {} THEN 0 ELSE CHOOSE j \in quotes : \A k \in quotes : j <= k

SyntaxError == [ok |-> FALSE]

\* The members of an object text from position i, where the opening quote
\* of a name is due: "name":"value" pairs separated by commas up to the
\* closing brace, which ends the text.
RECURSIVE ParseMembers(_, _)
ParseMembers(text, i) ==
  LET nameEnd == QuoteFrom(text, i + 1)
      valueEnd == IF nameEnd = 0 THEN 0 ELSE QuoteFrom(text, nameEnd + 3)
      member == [ name |-> Slice(text, i + 1, nameEnd - 1),
                  value |-> Slice(text, nameEnd + 3, valueEnd - 1) ]
      rest == ParseMembers(text, valueEnd + 2)
  IN  IF \/ Slice(text, i, i) # "\""
         \/ nameEnd = 0
         \/ Slice(text, nameEnd + 1, nameEnd + 2) # ":\""
         \/ valueEnd = 0
      THEN SyntaxError
      ELSE IF Slice(text, valueEnd + 1, Len(text)) = "}"
      THEN [ok |-> TRUE, members |-> << member >>]
      ELSE IF Slice(text, valueEnd + 1, valueEnd + 1) = "," /\ rest.ok
      THEN [ok |-> TRUE, members |-> << member >> \o rest.members]
      ELSE SyntaxError

\* JSON.parse of a stored text, for the texts JSON.stringify makes of an
\* object of plain strings: the members read, or a SyntaxError.
ParseObject(text) ==
  IF text = "{}" THEN [ok |-> TRUE, members |-> << >>]
  ELSE IF Slice(text, 1, 1) = "{" THEN ParseMembers(text, 2)
  ELSE SyntaxError

\* The object of the members read: of two members of one name the later
\* one counts.
JsonObject(members) ==
  [ k \in { members[j].name : j \in 1..Len(members) } |->
      members[CHOOSE j \in 1..Len(members) :
                /\ members[j].name = k
                /\ \A l \in (j + 1)..Len(members) : members[l].name # k].value ]

\* The texts the Settings pages can write to the item.
SavedTexts ==
  { JsonStringify(keysObject(apiKeys)) : apiKeys \in SettingsForms }
    \cup { JsonStringify(filteredKeys(apiKeys)) : apiKeys \in BrowserlessForms }

\* The parse of each of them, made once.
SavedParses == [ text \in SavedTexts |-> ParseObject(text) ]

Parsed(text) == IF text \in SavedTexts THEN SavedParses[text] ELSE ParseObject(text)

JsonParseThrows(text) == ~Parsed(text).ok

JsonParse(text) == JsonObject(Parsed(text).members)

\* JSON.parse(savedKeys) throws: never for null, which parses to null.
ParseThrows(savedKeys) == savedKeys.present /\ JsonParseThrows(savedKeys.text)

\* useAuth() gives the page the user of a session: a restored one, or the
\* one of a sign-in.
SessionRestored ==
  /\ user = Null
  /\ user' = "user-1"
  /\ UNCHANGED << qrData, scanSource, securityChecks, reportReady, isScanning, scans,
                  selectedFile, imageScans, localStorage, qr_scan_results >>
  /\ UNCHANGED << cameraVars, serverVars, indexPage >>

\* handleLogout: supabase.auth.signOut() ends the session and useAuth()
\* gives the page no user.
handleLogout ==
  /\ user # Null
  /\ user' = Null
  /\ UNCHANGED << qrData, scanSource, securityChecks, reportReady, isScanning, scans,
                  selectedFile, imageScans, localStorage, qr_scan_results >>
  /\ UNCHANGED << cameraVars, serverVars, indexPage >>

(***************************************************************************)
(* The Index page's scan.                                                  *)
(***************************************************************************)
\* Mutant of KeysConfigured: the scan no longer tests the stored item.
KeysConfiguredUnchecked(savedKeys) == TRUE

\* if (!savedKeys): the item exists and its text is not the empty string.
\* The text of an empty credential object, "{}", passes.
KeysConfigured(savedKeys) == savedKeys.present /\ savedKeys.text # ""

\* The body of the invoke: { url, apiKeys: JSON.parse(savedKeys) }, where
\* JSON.parse(null) is null.
InvokeBody(url, savedKeys) ==
  [ kind |-> "object",
    url |-> url,
    apiKeys |-> IF savedKeys.present
                THEN [kind |-> "object", keys |-> JsonParse(savedKeys.text)]
                ELSE NullApiKeys ]

\* The answers the providers give to a scan the client asked for.
ProviderReplies ==
  { [ p \in ProviderSet |-> IF p = "VIRUSTOTAL" THEN a ELSE RejectedFetch ] :
      a \in { RejectedFetch, Resolved(200, Json(VtReport(1))) } }

FunctionError == [error |-> TRUE]

\* What supabase.functions.invoke resolves to: { data, error: null } with the
\* body of a 2xx Response, { data: null, error } for any other status and
\* for a request that could not be made.
InvokeResult(resp) ==
  IF resp.status = 200
  THEN [ error |-> FALSE,
         data |-> [results |-> resp.results, overallRisk |-> resp.overallRisk] ]
  ELSE FunctionError

InvokeOutcomes(body) ==
  { FunctionError }
    \cup { InvokeResult(HandlerResponse([method |-> "POST", body |-> body], answer)) :
             answer \in ProviderReplies }

\* Mutant of ScanRow: the stored risk is the one the page derives.
ScanRowClientRisk(url, data, userId) ==
  [ qr_data |-> url,
    security_checks |-> data.results,
    overall_risk |-> getOverallRisk(data.results),
    user_id |-> userId ]

\* The row the scan inserts into qr_scan_results.
ScanRow(url, data, userId) ==
  [ qr_data |-> url,
    security_checks |-> data.results,
    overall_risk |-> data.overallRisk,
    user_id |-> userId ]

\* The table takes a row sent with the session of user uid: its CHECK constraint
\* on overall_risk, and the insert policy (auth.uid() = user_id OR user_id
\* IS NULL), where auth.uid() is null without a session and null equals
\* nothing.
InsertAccepted(row, uid) ==
  /\ row.overall_risk \in { "LOW", "MEDIUM", "HIGH" }
  /\ (uid # Null /\ uid = row.user_id) \/ row.user_id = Null

\* The dbError values an insert sent with the session of uid can resolve
\* to: an error (TRUE) whenever the request fails or the table rejects the
\* row, none (FALSE) when the row is stored.
InsertOutcomes(row, uid) == { TRUE } \cup (IF InsertAccepted(row, uid) THEN { FALSE } ELSE {})

\* A performSecurityScan call that has returned, and how: "noKeys" after the
\* 'API Keys Not Configured' toast, "failed" after the 'Scan Failed' toast,
\* "complete" after the 'Security Scan Complete' toast, "completeNotSaved"
\* when 'Failed to save scan result' was logged before it.
Ended(outcome) == [at |-> "returned", outcome |-> outcome]

\* performSecurityScan(url) from its call to its first await, or to its
\* return when there is none: without stored keys it returns at once, a
\* stored text that does not parse sends it to the catch block, and
\* otherwise it awaits the invoke.  It is the function of one render and
\* reads that render's user.
performSecurityScan(url, renderUser) ==
  IF ~KeysConfigured(localStorage)
  THEN /\ isScanning' = FALSE
       /\ scans' = Append(scans, Ended("noKeys"))
  ELSE IF ParseThrows(localStorage)
  THEN /\ isScanning' = FALSE
       /\ scans' = Append(scans, Ended("failed"))
  ELSE /\ isScanning' = TRUE
       /\ scans' = Append(scans, [ at |-> "invoke",
                                   url |-> url,
                                   body |-> InvokeBody(url, localStorage),
                                   user |-> renderUser ])

\* performSecurityScan of unnamed/part_001 from its call to its first
\* await: without stored keys it returns at once, otherwise it keeps the
\* text it has read and waits on its first timer (1000 ms).
performSecurityScanTimed(url, renderUser) ==
  IF ~KeysConfigured(localStorage)
  THEN /\ isScanning' = FALSE
       /\ scans' = Append(scans, Ended("noKeys"))
  ELSE /\ isScanning' = TRUE
       /\ scans' = Append(scans, [ at |-> "timer1000",
                                   url |-> url,
                                   savedKeys |-> localStorage,
                                   user |-> renderUser ])

\* handleScanResult, the same in both versions of the page, calls the
\* performSecurityScan of its page.
handleScanResult(data, source, renderUser) ==
  /\ qrData' = data
  /\ scanSource' = source
  /\ securityChecks' = << >>
  /\ reportReady' = FALSE
  /\ IF indexPage = TimedPage
     THEN performSecurityScanTimed(data, renderUser)
     ELSE performSecurityScan(data, renderUser)

\* The scans asked for so far: the decodings of an image that are pending
\* and the performSecurityScan calls made.
ScansAsked == Len(imageScans) + Len(scans)

\* QRScanner.handleManualSubmit: a blank text is ignored, any other is
\* trimmed and handed to the page.
handleManualSubmit(manualUrl) ==
  /\ ScansAsked < MaxScans
  /\ IF Trim(manualUrl) = ""
     THEN UNCHANGED << qrData, scanSource, securityChecks, reportReady, isScanning, scans >>
     ELSE handleScanResult(Trim(manualUrl), "manual", user)
  /\ UNCHANGED << user, selectedFile, imageScans, localStorage, qr_scan_results >>
  /\ UNCHANGED << cameraVars, serverVars, indexPage >>

\* The images the user can choose: what QrScanner.scanImage makes of each,
\* the text of its QR code as it is, or an error when it shows none.
Decoded(text) == [chosen |-> TRUE, decodes |-> TRUE, text |-> text]

NoQrCode == [chosen |-> TRUE, decodes |-> FALSE]

Files == { Decoded(" https://example.com "), NoQrCode }

\* QRScanner.handleFileUpload: the file chosen is kept.
handleFileUpload(file) ==
  /\ selectedFile' = file
  /\ UNCHANGED << qrData, scanSource, securityChecks, reportReady, isScanning, user, scans,
                  imageScans, localStorage, qr_scan_results >>
  /\ UNCHANGED << cameraVars, serverVars, indexPage >>

\* QRScanner.handleImageScan from its call to its first await, the import
\* of the decoder: the 'Scan Image' button works once a file is chosen.  The
\* call keeps the file and the onScanResult of its render.
handleImageScan ==
  /\ ScansAsked < MaxScans
  /\ selectedFile.chosen
  /\ imageScans' = Append(imageScans, [at |-> "import", file |-> selectedFile, user |-> user])
  /\ UNCHANGED << qrData, scanSource, securityChecks, reportReady, isScanning, user, scans,
                  selectedFile, localStorage, qr_scan_results >>
  /\ UNCHANGED << cameraVars, serverVars, indexPage >>

\* What QrScanner.scanImage settles to for a file: its text, or a rejection.
ScanImage(file) ==
  IF file.decodes THEN [error |-> FALSE, result |-> file.text] ELSE [error |-> TRUE]

\* handleImageScan after the import has settled: a failed import goes to
\* the catch block, else scanImage is awaited.
AfterImport(i, failed) ==
  /\ imageScans' = IF failed THEN Without(imageScans, i)
                   ELSE [imageScans EXCEPT ![i].at = "scanImage"]
  /\ UNCHANGED << qrData, scanSource, securityChecks, reportReady, isScanning, scans >>

\* handleImageScan after scanImage has settled: the text is handed to the
\* page as it is; a rejection goes to the catch block.
AfterScanImage(i) ==
  /\ imageScans' = Without(imageScans, i)
  /\ IF ScanImage(imageScans[i].file).error
     THEN UNCHANGED << qrData, scanSource, securityChecks, reportReady, isScanning, scans >>
     ELSE handleScanResult(ScanImage(imageScans[i].file).result, "upload", imageScans[i].user)

\* Mutant of AfterInvoke: the results are shown although the function
\* answered with an error.
AfterInvokeIgnoringError(i, outcome) ==
  IF outcome.error
  THEN /\ reportReady' = TRUE
       /\ isScanning' = FALSE
       /\ scans' = [scans EXCEPT ![i] = Ended("failed")]
       /\ UNCHANGED securityChecks
  ELSE /\ securityChecks' = outcome.data.results
       /\ IF scans[i].user # Null
          THEN /\ scans' = [scans EXCEPT ![i] =
                              [ at |-> "insert",
                                row |-> ScanRow(scans[i].url, outcome.data, scans[i].user),
                                session |-> user ]]
               /\ UNCHANGED << reportReady, isScanning >>
          ELSE /\ reportReady' = TRUE
               /\ isScanning' = FALSE
               /\ scans' = [scans EXCEPT ![i] = Ended("complete")]

\* performSecurityScan after the invoke has settled: an error goes to the
\* catch block; otherwise the results are shown and, when the render that
\* started the scan had a user, the insert of that user's row is requested
\* and awaited, else the scan completes.  The request goes out with the
\* session the supabase client holds at this moment.
AfterInvoke(i, outcome) ==
  IF outcome.error
  THEN /\ isScanning' = FALSE
       /\ scans' = [scans EXCEPT ![i] = Ended("failed")]
       /\ UNCHANGED << securityChecks, reportReady >>
  ELSE /\ securityChecks' = outcome.data.results
       /\ IF scans[i].user # Null
          THEN /\ scans' = [scans EXCEPT ![i] =
                              [ at |-> "insert",
                                row |-> ScanRow(scans[i].url, outcome.data, scans[i].user),
                                session |-> user ]]
               /\ UNCHANGED << reportReady, isScanning >>
          ELSE /\ reportReady' = TRUE
               /\ isScanning' = FALSE
               /\ scans' = [scans EXCEPT ![i] = Ended("complete")]

\* performSecurityScan after the insert has settled: a dbError is logged and
\* the scan completes either way.
AfterInsert(i, dbError) ==
  /\ reportReady' = TRUE
  /\ isScanning' = FALSE
  /\ scans' = [scans EXCEPT ![i] = Ended(IF dbError THEN "completeNotSaved" ELSE "complete")]
  /\ qr_scan_results' = IF dbError THEN qr_scan_results
                        ELSE Append(qr_scan_results, scans[i].row)
  /\ UNCHANGED securityChecks

(***************************************************************************)
(* The continuations of performSecurityScan of unnamed/part_001.           *)
(***************************************************************************)
\* After the 1000 ms timer: the text read at the call is parsed and the
\* invoke awaited; a text that does not parse sends it to the catch block.
AfterTimer1000(i) ==
  IF ParseThrows(scans[i].savedKeys)
  THEN /\ isScanning' = FALSE
       /\ scans' = [scans EXCEPT ![i] = Ended("failed")]
       /\ UNCHANGED << securityChecks, reportReady >>
  ELSE /\ scans' = [scans EXCEPT ![i] =
                      [ at |-> "invoke",
                        url |-> scans[i].url,
                        body |-> InvokeBody(scans[i].url, scans[i].savedKeys),
                        user |-> scans[i].user ]]
       /\ UNCHANGED << securityChecks, reportReady, isScanning >>

\* After the invoke has settled: an error goes to the catch block;
\* otherwise the scan keeps the data and waits on its second timer (800 ms).
AfterInvokeTimed(i, outcome) ==
  IF outcome.error
  THEN /\ isScanning' = FALSE
       /\ scans' = [scans EXCEPT ![i] = Ended("failed")]
       /\ UNCHANGED << securityChecks, reportReady >>
  ELSE /\ scans' = [scans EXCEPT ![i] =
                      [ at |-> "timer800",
                        url |-> scans[i].url,
                        data |-> outcome.data,
                        user |-> scans[i].user ]]
       /\ UNCHANGED << securityChecks, reportReady, isScanning >>

\* After the 800 ms timer: the results are shown and, when the render that
\* started the scan had a user, the insert of that user's row is requested
\* with the session held now and awaited; else the scan waits on its third
\* timer (500 ms).
AfterTimer800(i) ==
  /\ securityChecks' = scans[i].data.results
  /\ scans' = [scans EXCEPT ![i] =
                 IF scans[i].user # Null
                 THEN [ at |-> "insert",
                        row |-> ScanRow(scans[i].url, scans[i].data, scans[i].user),
                        session |-> user ]
                 ELSE [ at |-> "timer500", outcome |-> "complete" ]]
  /\ UNCHANGED << reportReady, isScanning >>

\* After the insert has settled: a dbError is logged, and the scan waits on
\* its third timer either way.
AfterInsertTimed(i, dbError) ==
  /\ scans' = [scans EXCEPT ![i] =
                 [ at |-> "timer500",
                   outcome |-> IF dbError THEN "completeNotSaved" ELSE "complete" ]]
  /\ qr_scan_results' = IF dbError THEN qr_scan_results
                        ELSE Append(qr_scan_results, scans[i].row)
  /\ UNCHANGED << securityChecks, reportReady, isScanning >>

\* After the 500 ms timer: the report is ready and the scan returns.
AfterTimer500(i) ==
  /\ reportReady' = TRUE
  /\ isScanning' = FALSE
  /\ scans' = [scans EXCEPT ![i] = Ended(scans[i].outcome)]
  /\ UNCHANGED securityChecks

(***************************************************************************)
(* The camera dialog.                                                      *)
(***************************************************************************)
\* videoRef.current is an element: the dialog renders (isOpen) and renders
\* the <video ref={videoRef}> branch.
VideoMounted == showCamera /\ hasPermission = "true" /\ cameraStarted

VideoNotFound == "Video element not found. Please try again."

\* String.prototype.includes
Includes(text, part) ==
  \E i \in 1..(Len(text) - Len(part) + 1) : SubSeq(text, i, i + Len(part) - 1) = part

\* An Error as the catch block of startCamera reads it.
Error(name, message) == [name |-> name, message |-> message]

\* The message the catch block of startCamera shows for an error.
CameraErrorMessage(error) ==
  IF \/ error.name = "NotAllowedError"
     \/ Includes(error.message, "denied")
     \/ Includes(error.message, "Permission denied")
  THEN "Camera access denied. Please allow camera access when prompted by your browser."
  ELSE IF error.name = "NotFoundError"
  THEN "No camera found. Please ensure your device has a camera."
  ELSE IF error.name = "NotSupportedError"
  THEN "Camera not supported on this browser. Try Chrome, Firefox, or Safari."
  ELSE IF error.name = "NotReadableError"
  THEN "Camera is busy. Please close other apps using the camera and try again."
  ELSE IF error.name = "AbortError"
  THEN "Camera access was interrupted. Please try again."
  ELSE IF error.message # "" THEN error.message
  ELSE "Unable to start camera. Please check your browser settings and try again."

Started == [started |-> TRUE]

\* What scanner.start() settles to on the device.
StartOutcomes ==
  CASE camera = "usable" -> { Started }
    [] camera = "denied" -> { Error("NotAllowedError", "Permission denied") }

\* The catch and finally blocks of startCamera.
StartCameraFails(message) ==
  /\ hasPermission' = "false"
  /\ cameraStarted' = FALSE
  /\ permissionError' = message
  /\ isRetrying' = FALSE
  /\ starting' = "idle"

\* startCamera from the test of videoRef.current on: without the element it
\* throws, with it a scanner is made and scanner.start() awaited.
StartScanner ==
  IF ~VideoMounted
  THEN StartCameraFails(CameraErrorMessage(Error("Error", VideoNotFound)))
  ELSE /\ isRetrying' = TRUE
       /\ permissionError' = ""
       /\ cameraStarted' = FALSE
       /\ hasPermission' = Null
       /\ starting' = "start"

\* startCamera from its call to its first await, or to its end: a scanner
\* kept in state is stopped first (an await), else the scanner is started.
startCamera ==
  IF qrScanner # Null
  THEN /\ isRetrying' = TRUE
       /\ permissionError' = ""
       /\ cameraStarted' = FALSE
       /\ hasPermission' = Null
       /\ starting' = "stop"
       /\ scannerRunning' = FALSE
       /\ UNCHANGED qrScanner
  ELSE /\ StartScanner
       /\ UNCHANGED << qrScanner, scannerRunning >>

\* startCamera after qrScanner.stop() has settled.
AfterStop ==
  /\ qrScanner' = Null
  /\ StartScanner
  /\ UNCHANGED scannerRunning

\* startCamera after scanner.start() has settled.
AfterStart(outcome) ==
  IF outcome = Started
  THEN /\ hasPermission' = "true"
       /\ qrScanner' = "scanner"
       /\ cameraStarted' = TRUE
       /\ scannerRunning' = TRUE
       /\ isRetrying' = FALSE
       /\ starting' = "idle"
       /\ UNCHANGED permissionError
  ELSE /\ StartCameraFails(CameraErrorMessage(outcome))
       /\ UNCHANGED << qrScanner, scannerRunning >>

\* The 'Use Camera' button: setShowCamera(true).  The effect of the closed
\* dialog is cleaned up (a scanner in state is stopped and destroyed, the
\* dialog's state reset) and the effect of the open one sets the timer.
OpenCamera ==
  /\ ~showCamera
  /\ showCamera' = TRUE
  /\ timer' = TRUE
  /\ qrScanner' = Null
  /\ scannerRunning' = IF qrScanner # Null THEN FALSE ELSE scannerRunning
  /\ hasPermission' = Null
  /\ permissionError' = ""
  /\ cameraStarted' = FALSE
  /\ UNCHANGED << isRetrying, starting, camera >>
  /\ UNCHANGED << pageVars, serverVars >>

\* The dialog's close button: onClose, setShowCamera(false).  The effect of
\* the open dialog is cleaned up, which clears the timer and nothing else.
CloseCamera ==
  /\ showCamera
  /\ showCamera' = FALSE
  /\ timer' = FALSE
  /\ UNCHANGED << hasPermission, cameraStarted, permissionError, isRetrying, qrScanner,
                  starting, scannerRunning, camera >>
  /\ UNCHANGED << pageVars, serverVars >>

\* The timer of the effect fires: startCamera().
TimerFires ==
  /\ timer
  /\ starting = "idle"
  /\ timer' = FALSE
  /\ startCamera
  /\ UNCHANGED << showCamera, camera >>
  /\ UNCHANGED << pageVars, serverVars >>

\* The 'Try Again' button of the error view: startCamera().
handleRetry ==
  /\ showCamera
  /\ hasPermission = "false"
  /\ ~isRetrying
  /\ starting = "idle"
  /\ startCamera
  /\ UNCHANGED << showCamera, timer, camera >>
  /\ UNCHANGED << pageVars, serverVars >>

\* The camera of the device: one the page may use, or one it is denied.
Devices == { "usable", "denied" }

\* The user grants or withdraws the camera permission.
CameraChanges(device) ==
  /\ device # camera
  /\ camera' = device
  /\ UNCHANGED << showCamera, timer, hasPermission, cameraStarted, permissionError,
                  isRetrying, qrScanner, starting, scannerRunning >>
  /\ UNCHANGED << pageVars, serverVars >>

(***************************************************************************)
(* The event loop.                                                         *)
(***************************************************************************)
\* The awaits that can settle, each named by the function suspended at it:
\* a performSecurityScan call (at its invoke, its insert or one of its
\* timers), a handleImageScan call, or startCamera.
Awaiting ==
  { [scan |-> i] : i \in { n \in 1..Len(scans) : scans[n].at # "returned" } }
    \cup { [image |-> i] : i \in 1..Len(imageScans) }
    \cup (IF starting # "idle" THEN { [camera |-> TRUE] } ELSE {})

\* A pending await settles and the function that awaited it runs on to its
\* next await or to its end.
AwaitSettles ==
  \E a \in Awaiting :
    IF "camera" \in DOMAIN a
    THEN /\ IF starting = "stop"
            THEN AfterStop
            ELSE \E outcome \in StartOutcomes :
                   AfterStart(outcome)
         /\ UNCHANGED << showCamera, timer, camera >>
         /\ UNCHANGED << pageVars, serverVars >>
    ELSE IF "image" \in DOMAIN a
    THEN /\ IF imageScans[a.image].at = "import"
            THEN \E failed \in BOOLEAN : AfterImport(a.image, failed)
            ELSE AfterScanImage(a.image)
         /\ UNCHANGED << user, selectedFile, localStorage, qr_scan_results >>
         /\ UNCHANGED << cameraVars, serverVars, indexPage >>
    ELSE /\ IF scans[a.scan].at = "invoke"
            THEN \E outcome \in InvokeOutcomes(scans[a.scan].body) :
                   /\ IF indexPage = TimedPage
                      THEN AfterInvokeTimed(a.scan, outcome)
                      ELSE AfterInvoke(a.scan, outcome)
                   /\ UNCHANGED qr_scan_results
            ELSE IF scans[a.scan].at = "insert"
            THEN \E dbError \in InsertOutcomes(scans[a.scan].row, scans[a.scan].session) :
                   IF indexPage = TimedPage
                   THEN AfterInsertTimed(a.scan, dbError)
                   ELSE AfterInsert(a.scan, dbError)
            ELSE /\ IF scans[a.scan].at = "timer1000" THEN AfterTimer1000(a.scan)
                    ELSE IF scans[a.scan].at = "timer800" THEN AfterTimer800(a.scan)
                    ELSE AfterTimer500(a.scan)
                 /\ UNCHANGED qr_scan_results
         /\ UNCHANGED << qrData, scanSource, user, selectedFile, imageScans, localStorage >>
         /\ UNCHANGED << cameraVars, serverVars, indexPage >>

\* The camera dialog's handlers change the dialog's variables only and read
\* no other, and the handlers of the page, of its scanner card and of the
\* Settings pages neither read nor change the dialog's.  The page is
\* therefore followed with the dialog left as it loads (ClientSpec,
\* SequentialSpec), and the dialog beside a page whose scans do not overlap
\* (CameraSpec).
ClientNext ==
  \/ \E manualUrl \in ManualTexts : handleManualSubmit(manualUrl)
  \/ \E file \in Files : handleFileUpload(file)
  \/ handleImageScan
  \/ \E apiKeys \in SettingsForms : handleSaveApiKeys(apiKeys)
  \/ \E apiKeys \in BrowserlessForms : handleSaveApiKeysFiltered(apiKeys)
  \/ SessionRestored
  \/ handleLogout
  \/ AwaitSettles

\* The event loop runs every continuation whose await has settled and every
\* timer that is due; nothing obliges the user to do anything.
ClientSpec ==
  PageInit /\ [][ClientNext]_vars /\ WF_vars(AwaitSettles)

\* No scan is suspended at an await.
NoScanInFlight == \A i \in 1..Len(scans) : scans[i].at = "returned"

\* Nothing the user asked to be scanned is still on its way.
NothingAsked == NoScanInFlight /\ imageScans = << >>

\* The client when the user starts a scan only after the one before it has
\* returned.
SequentialNext ==
  \/ \E manualUrl \in ManualTexts : NothingAsked /\ handleManualSubmit(manualUrl)
  \/ \E file \in Files : handleFileUpload(file)
  \/ NothingAsked /\ handleImageScan
  \/ \E apiKeys \in SettingsForms : handleSaveApiKeys(apiKeys)
  \/ \E apiKeys \in BrowserlessForms : handleSaveApiKeysFiltered(apiKeys)
  \/ SessionRestored
  \/ handleLogout
  \/ AwaitSettles

SequentialSpec ==
  PageInit /\ [][SequentialNext]_vars /\ WF_vars(AwaitSettles)

\* The camera dialog, beside the page.
CameraNext ==
  \/ \E manualUrl \in ManualTexts : NothingAsked /\ handleManualSubmit(manualUrl)
  \/ \E file \in Files : handleFileUpload(file)
  \/ NothingAsked /\ handleImageScan
  \/ \E apiKeys \in SettingsForms : handleSaveApiKeys(apiKeys)
  \/ \E apiKeys \in BrowserlessForms : handleSaveApiKeysFiltered(apiKeys)
  \/ SessionRestored
  \/ handleLogout
  \/ AwaitSettles
  \/ OpenCamera
  \/ CloseCamera
  \/ TimerFires
  \/ handleRetry
  \/ \E device \in Devices : CameraChanges(device)

CameraSpec ==
  Init /\ [][CameraNext]_vars /\ WF_vars(AwaitSettles) /\ WF_vars(TimerFires)


(***************************************************************************)
(* Claims about the client.                                                *)
(***************************************************************************)
\* The credential objects a Settings page can have stored.
SavedObjects ==
  { keysObject(apiKeys) : apiKeys \in SettingsForms }
    \cup { filteredKeys(apiKeys) : apiKeys \in BrowserlessForms }

\* The check lists the scan handler can return for a url scanned by this
\* client.
PossibleResults(url) ==
  { ScanResults(url, keys, answer) : keys \in SavedObjects, answer \in ProviderReplies }

\* C25: whenever the report is marked ready, the check list on display is a
\* result of scanning the url on display, and isScanning is set whenever a
\* scan is in flight, also when a second scan is started while an earlier
\* one still awaits the edge function.
C25_ReportIsForDisplayedUrl ==
  /\ reportReady => securityChecks \in PossibleResults(qrData)
  /\ ~NoScanInFlight => isScanning


\* The camera view: the dialog shows the video of a running scanner.
CameraActive == hasPermission = "true" /\ cameraStarted /\ scannerRunning

\* C26: after the camera dialog is opened on a device whose camera is
\* available and permitted, startCamera eventually reaches the camera-active
\* state, unless the dialog is closed or the camera stops being usable
\* first; and the 'Video element not found' error is shown only when the
\* camera cannot be used.
C26_CameraBecomesActive ==
  /\ (showCamera /\ camera = "usable") ~> (CameraActive \/ ~showCamera \/ camera # "usable")
  /\ [](permissionError = VideoNotFound => camera # "usable")


\* The scan started last, and whether it returned in one of the given ways.
LastScanEnded(outcomes) ==
  /\ scans # << >>
  /\ scans[Len(scans)].at = "returned"
  /\ scans[Len(scans)].outcome \in outcomes

\* C27: a scan that does not overlap another always returns, and leaves
\* isScanning false on every path (no stored keys, error of the edge
\* function, success); reportReady is true only when the edge function
\* returned results without error; after a scan that failed the check list
\* is empty and reportReady is false.
C27_SingleScanTerminates ==
  /\ [](NoScanInFlight => ~isScanning)
  /\ [](reportReady => LastScanEnded({ "complete", "completeNotSaved" }))
  /\ [](LastScanEnded({ "noKeys", "failed" }) => securityChecks = << >> /\ ~reportReady)
  /\ (~NoScanInFlight ~> NoScanInFlight)

\* On the page of unnamed/part_001, one scan of a behaviour failed with the
\* edge function's error and a later one succeeded.
C27_Witness ==
  /\ indexPage = TimedPage
  /\ Len(scans) = 2
  /\ scans[1] = Ended("failed")
  /\ scans[2] = Ended("complete")
  /\ ~isScanning
  /\ reportReady
  /\ securityChecks # << >>


\* No run of startCamera gets as far as creating a scanner: the video
\* element it needs is rendered only after a scanner has started.
NoScannerEverStarts ==
  /\ qrScanner = Null
  /\ ~scannerRunning
  /\ starting = "idle"
  /\ ~VideoMounted

\* C29: while no API keys are saved in local storage the client never
\* invokes the security-scan function: every scan has returned after the
\* 'API Keys Not Configured' toast with isScanning false, an empty check
\* list and reportReady false; and every invocation the client makes
\* carries a credential object read from local storage.
C29_NoKeysNoInvoke ==
  /\ ~localStorage.present =>
       /\ \A i \in 1..Len(scans) : scans[i] = Ended("noKeys")
       /\ ~isScanning
       /\ securityChecks = << >>
       /\ ~reportReady
  /\ \A i \in 1..Len(scans) :
       scans[i].at = "invoke" =>
         /\ localStorage.present
         /\ scans[i].body.apiKeys.kind = "object"
         /\ scans[i].body.apiKeys.keys \in SavedObjects

\* A url was submitted with nothing in local storage and the scan aborted.
C29_Witness ==
  /\ ~localStorage.present
  /\ qrData = "https://example.com"
  /\ scans = << Ended("noKeys") >>
  /\ ~isScanning
  /\ securityChecks = << >>
  /\ ~reportReady

\* The risk the scan handler returns for a list of checks is the one stored
\* with it.
HandlerRisk(row) == row.overall_risk = overallRisk(row.security_checks)

\* The texts the page can be handed: a typed text, trimmed and not empty,
\* and the text of a chosen image, as it is.
ScannedTexts ==
  ({ Trim(text) : text \in ManualTexts } \ { "" })
    \cup { file.text : file \in { f \in Files : f.decodes } }

\* The rows of user uid that hold a text the user had scanned, a check list
\* the scan handler can return for it and the risk it returns with it.
HandlerRows(uid) ==
  UNION { { ScanRow(url, [results |-> checks, overallRisk |-> overallRisk(checks)], uid) :
              checks \in PossibleResults(url) } :
            url \in ScannedTexts }

\* The continuation of a scan whose insert failed: the scan returns, or
\* waits on its last timer, as not saved.
InsertFailedStep(i) ==
  /\ i <= Len(scans)
  /\ scans[i].at = "insert"
  /\ scans'[i].at # "insert"
  /\ scans'[i].outcome = "completeNotSaved"

\* A scan whose insert failed returns.
NotSavedReturns(i) ==
  /\ i <= Len(scans)
  /\ scans[i].at # "returned"
  /\ scans'[i] = Ended("completeNotSaved")

\* C30: the client inserts a row only for a signed-in user (a scan started
\* with nobody signed in attempts no insert, and a row enters the table only
\* when its insert was sent with the session of a signed-in user, as that
\* user's row), the row's overall_risk is the value the scan handler
\* returned, and a failed insert leaves the check list on display and the
\* scan goes on to set reportReady: in the same step in pages/Index.tsx,
\* after its last timer in the page of unnamed/part_001.
C30_BestEffortPersistence ==
  /\ [][\A i \in 1..MaxScans :
          (/\ i <= Len(scans)
           /\ scans[i].at \in { "timer1000", "invoke", "timer800" }
           /\ scans[i].user = Null) =>
            /\ scans'[i].at # "insert"
            /\ scans'[i].at \in { "invoke", "timer800" } => scans'[i].user = Null]_vars
  /\ [][qr_scan_results' # qr_scan_results =>
          \E i \in 1..Len(scans) :
            /\ scans[i].at = "insert"
            /\ scans[i].session # Null
            /\ scans[i].row \in HandlerRows(scans[i].session)
            /\ qr_scan_results' = Append(qr_scan_results, scans[i].row)]_vars
  /\ [](\A i \in 1..Len(scans) :
          scans[i].at = "insert" => scans[i].row.user_id # Null /\ HandlerRisk(scans[i].row))
  /\ [](\A k \in 1..Len(qr_scan_results) :
          qr_scan_results[k].user_id # Null /\ HandlerRisk(qr_scan_results[k]))
  /\ [][\A i \in 1..MaxScans :
          InsertFailedStep(i) =>
            /\ securityChecks' = scans[i].row.security_checks
            /\ securityChecks' # << >>
            /\ qr_scan_results' = qr_scan_results]_vars
  /\ [][\A i \in 1..MaxScans :
          NotSavedReturns(i) =>
            /\ reportReady'
            /\ securityChecks' = securityChecks
            /\ securityChecks' # << >>]_vars
  /\ ((\E i \in 1..Len(scans) :
          scans[i].at = "timer500" /\ scans[i].outcome = "completeNotSaved")
        ~> (reportReady /\ securityChecks # << >>))

\* One scan of a signed-in user was stored, the insert of the next failed,
\* and its report is shown.
C30_Witness ==
  /\ indexPage = CurrentPage
  /\ user # Null
  /\ scans = << Ended("complete"), Ended("completeNotSaved") >>
  /\ Len(qr_scan_results) = 1
  /\ qr_scan_results[1].overall_risk = "LOW"
  /\ Len(qr_scan_results[1].security_checks) = 2
  /\ reportReady
  /\ securityChecks # << >>

====
